---- MODULE Spec2Model ----
(***************************************************************************)
(* Atorch DL24 interactive controller (src/atorch_interactive.py):         *)
(* telemetry state, session-index (ADU) learner, key loop and the MPPT     *)
(* sweep, as one asyncio task plus the notification callback.  Two         *)
(* archived variants are modelled where they differ: the notification      *)
(* handler of archive/atorch_logger.py and the key bindings of             *)
(* archive/atorch_mpp_control.py.                                          *)
(*                                                                         *)
(* Units.  The decoder divides raw integers: voltage = raw/10 V, current = *)
(* raw/1000 A.  The model keeps the raw integers (tenths of a volt,        *)
(* milliamps); power = voltage*current is then in units of 1e-4 W, so      *)
(* 0.05 W is 500 units, and "p > best_p + 1e-9" is "p > best_p".  The      *)
(* learner's threshold of 0.0005 A is half a milliamp.                     *)
(*                                                                         *)
(* Scheduling.  asyncio is cooperative: the notification callback runs     *)
(* only while the task is suspended in an await.  Each pc value in         *)
(* AwaitPcs is such a suspension; every other pc value is a position       *)
(* inside a synchronous stretch of code, where no notification can be      *)
(* delivered.  Consecutive awaits with no code between them are one        *)
(* suspension.                                                             *)
(***************************************************************************)
EXTENDS Integers, Sequences, FiniteSets, TLC

\* ---------------------------------------------------------------- bounds
\* Status frames the device delivers in one run of the whole program.
MaxFrames == 3
\* Status frames the device delivers while the index is learned.
MaxLearnFrames == 2
\* Status frames the device delivers around one sweep.
MaxSweepFrames == 6
\* Status frames that arrive while a sweep runs under the fair scheduler.
MaxFairFrames == 4
\* Status frames a device with a steady reading delivers around one sweep.
MaxFlatFrames == 20
\* Answers of the simulated device the transport holds back at one time.
MaxLag == 3
\* Non-status ("misc") notifications the device delivers in one run.
MaxMisc == 1
\* Keys the operator presses in one run.
MaxKeys == 2
\* Sweeps the operator requests after learning.
MaxSweeps == 1
\* Largest step count typed at the +N / -N prompt.
MaxNudge == 1
\* Garbage bytes that precede the first frame of an inbound stream.
MaxGarbage == 3
\* Status frames that arrive around a sweep whose result row is studied.
MaxCsvFrames == 4
\* Keys pressed in one run of archive/atorch_mpp_control.py.
MaxPresses == 3
\* The largest max_steps a sweep is called with where the cap is studied.
MaxCapSteps == 7
\* Answers of the simulated device that may be on their way to a capped
\* sweep at once.
MaxClimbLag == 1

\* ------------------------------------------------------ program constants
NoneVal == -1
BTN_SET == 49
BTN_PLUS == 51
BTN_MINUS == 52
CMD_ONOFF == 50
ONOFF_ADU == 2
MPPT_MAX_STEPS == 500
MPPT_CONSECUTIVE_DOWNS == 3
BURST_PER_FRAME == 3
MPPT_FINE_CYCLES == 10
MPPT_FINE_TOL_W == 500
MPPT_FINE_NO_IMPROVE_MAX == 4
MPPT_RETURN_TO_BEST == TRUE
\* A status frame is 36 bytes FF 55 01 ...; a button reply is 8 bytes FF 55 02 ...
FRAME_LEN == 36
REPLY_LEN == 8
TYPE_STATUS == 1
TYPE_REPLY == 2
MAGIC == <<255, 85>>
\* archive/atorch_mpp_control.py: the codes its keys send, and the index.
KEY_CODES == {81, 82, 80, 73}
KEYPRESS_ADU == 1

\* Candidate session indices probed by learn_adu and fanned out by send_button.
ADUS == 0..3

\* Raw (voltage in 0.1 V, current in mA) pairs the free device may report:
\* 0.1 W, 0.15 W (0.1 W plus exactly the fine tolerance) and 0.18 W.
Readings == {<<100, 10>>, <<100, 15>>, <<90, 20>>}

VARIABLES
    pc,              \* position of the main task
    frame_counter, misc_counter, last_voltage_v, last_current_a,
    detected_adu,    \* _detected_adu (NoneVal = None)
    lrn,             \* learn_adu's locals
    probes,          \* history: what learn_adu observed around each probe
    nudge,           \* cc_nudge's locals
    mppt,            \* mppt_sweep's locals
    wait_base, wait_ret, wait_kind, got,   \* wait_for_new_frame call
    honored, dev_pos, dev_sim, dev_queue,  \* the device
    n_tx,            \* history: frames written to the transport
    net_steps,       \* history: PLUS minus MINUS written since the search started
    results,         \* rows appended to the CSV file
    keys_left,       \* keys the operator may still press
    tx_adu,          \* history: byte 3 of the last frame written
    sent_fc,         \* history: frame_counter at the last write (NoneVal:
                     \* not recorded in this run)
    key_tasks,       \* archive/atorch_mpp_control.py: the send_key tasks
    buffer,          \* the reassembly buffer of handle_notify
    stream, fed,     \* the inbound byte stream, and how much of it was delivered
    emitted,         \* history: the frames the reassembler handed on
    fn_arg, fn_ret   \* a pure function's argument and what it returned

telemetry == <<frame_counter, misc_counter, last_voltage_v, last_current_a>>
waitv == <<wait_base, wait_ret, wait_kind, got>>
devconst == <<honored, dev_sim>>
txv == <<dev_pos, dev_queue, n_tx, net_steps, tx_adu, sent_fc>>
rxv == <<buffer, stream, fed, emitted>>
fnv == <<fn_arg, fn_ret>>
learnv == <<lrn, probes>>
vars == <<pc, frame_counter, misc_counter, last_voltage_v, last_current_a,
          detected_adu, lrn, probes, nudge, mppt, wait_base, wait_ret,
          wait_kind, got, honored, dev_pos, dev_sim, dev_queue, n_tx,
          net_steps, results, keys_left, tx_adu, sent_fc, key_tasks, buffer,
          stream, fed, emitted,
          fn_arg, fn_ret>>

\* The suspensions of the main task.
AwaitPcs == {"status_wait", "learn_settle", "learn_undo", "main_loop",
             "nudge_sent", "wait_sleep", "coarse_sleep", "fine_plus_sent",
             "fine_plus_rev_sent", "fine_minus_sent", "fine_minus_rev_sent",
             "return_sleep"}
AtAwait == pc \in AwaitPcs

Abs(x) == IF x < 0 THEN 0 - x ELSE x

MinIgnoresCap(a, b) == a

Min(a, b) == IF a < b THEN a ELSE b

\* ----------------------------------------------------------- the device
\* What one button frame does to the set-point of a device that obeys it.
StepOf(code) == IF code = BTN_PLUS THEN 1 ELSE IF code = BTN_MINUS THEN 0 - 1 ELSE 0

\* The simulated device's reading at a set-point: constant 10.0 V, current
\* peaking at position 12, so power rises strictly over 0..12 and falls
\* strictly afterwards, by 0.1 W per step.
PeakReading(p) == <<100, 6000 - 10 * Abs(p - 12)>>

\* client.write_gatt_char(CHAR_UUID, pkt): one command frame handed to the
\* transport.  The firmware obeys it only at the index it honors; the
\* simulated device answers every frame it obeys with one status frame,
\* queued until the transport delivers it.
Write(code, adu) ==
    /\ n_tx' = n_tx + 1
    /\ tx_adu' = adu
    /\ sent_fc' = IF sent_fc = NoneVal THEN NoneVal ELSE frame_counter
    /\ net_steps' = net_steps + StepOf(code)
    /\ dev_pos' = IF adu = honored THEN dev_pos + StepOf(code) ELSE dev_pos
    /\ dev_queue' = IF dev_sim /\ adu = honored
                    THEN Append(dev_queue, PeakReading(dev_pos'))
                    ELSE dev_queue

\* --------------------------------------------------------- telemetry
print_decoded_wrong_key(v, i) ==
    /\ last_current_a' = i
    /\ last_voltage_v' = NoneVal
    /\ frame_counter' = frame_counter + 1

\* print_decoded: the single writer of the telemetry globals.
print_decoded(v, i) ==
    /\ last_current_a' = i
    /\ last_voltage_v' = v
    /\ frame_counter' = frame_counter + 1

\* _current_power
current_power ==
    IF last_voltage_v = NoneVal \/ last_current_a = NoneVal THEN NoneVal
    ELSE last_voltage_v * last_current_a

\* handle_notify with a chunk that completes one status frame.
NotifyStatus(cap, readings) ==
    /\ AtAwait
    /\ ~dev_sim
    /\ frame_counter < cap
    /\ \E r \in readings : print_decoded(r[1], r[2])
    /\ UNCHANGED <<pc, misc_counter, detected_adu, learnv, nudge, mppt, waitv,
                   devconst, key_tasks, rxv, fnv, txv, results, keys_left>>

\* handle_notify with a message that does not start with FF 55.
NotifyMisc ==
    /\ AtAwait
    /\ ~dev_sim
    /\ misc_counter < MaxMisc
    /\ misc_counter' = misc_counter + 1
    /\ UNCHANGED <<pc, frame_counter, last_voltage_v, last_current_a,
                   detected_adu, learnv, nudge, mppt, waitv, devconst, key_tasks, rxv, fnv, txv,
                   results, keys_left>>

\* handle_notify with the simulated device's next queued status frame.
NotifyQueued ==
    /\ AtAwait
    /\ dev_sim
    /\ dev_queue /= <<>>
    /\ print_decoded(Head(dev_queue)[1], Head(dev_queue)[2])
    /\ dev_queue' = Tail(dev_queue)
    /\ UNCHANGED <<pc, misc_counter, detected_adu, learnv, nudge, mppt, waitv,
                   devconst, key_tasks, rxv, fnv, dev_pos, n_tx, net_steps, tx_adu, sent_fc, results,
                   keys_left>>

\* -------------------------------------------------------- command frames
\* a ^ b on non-negative integers.
RECURSIVE Xor(_, _)
Xor(a, b) ==
    IF a = 0 THEN b ELSE IF b = 0 THEN a
    ELSE ((a + b) % 2) + 2 * Xor(a \div 2, b \div 2)

\* chk = 0x44; for b in pkt[2:]: chk ^= b
RECURSIVE XorAll(_, _)
XorAll(bytes, chk) ==
    IF bytes = <<>> THEN chk ELSE XorAll(Tail(bytes), Xor(chk, Head(bytes)))

\* sum(pkt[2:9])
RECURSIVE SumAll(_)
SumAll(bytes) == IF bytes = <<>> THEN 0 ELSE Head(bytes) + SumAll(Tail(bytes))

\* build_atorch_cmd: FF 55 11 ADU CMD 00 00 00 00 CHK, CHK the running XOR
\* from 0x44 over the bytes from index 2 on.
build_atorch_cmd(cmd, adu) ==
    LET pkt == <<255, 85, 17, adu, cmd, 0, 0, 0, 0>>
    IN Append(pkt, XorAll(SubSeq(pkt, 3, 9), 68))

make_button_packet_plain(button_code, adu) ==
    LET pkt == <<255, 85, 17, adu % 256, button_code % 256, 0, 0, 0, 0>>
    IN Append(pkt, (SumAll(SubSeq(pkt, 3, 9)) + 68) % 256)

\* _make_button_packet: the same nine bytes; the last is
\* (sum(pkt[2:9]) ^ 68) & 0xFF.
make_button_packet(button_code, adu) ==
    LET pkt == <<255, 85, 17, adu % 256, button_code % 256, 0, 0, 0, 0>>
    IN Append(pkt, Xor(SumAll(SubSeq(pkt, 3, 9)), 68) % 256)

panic_frame_without_seed(cmd, adu) ==
    LET p == <<255, 85, 17, adu, cmd, 0, 0, 0, 0>>
    IN Append(p, XorAll(SubSeq(p, 3, 9), 0))

\* atorch_panic_off.py, frame: the same nine bytes; chk = 0, chk ^= b for
\* the bytes from index 2 on, then chk ^= 0x44.
panic_frame(cmd, adu) ==
    LET p == <<255, 85, 17, adu, cmd, 0, 0, 0, 0>>
    IN Append(p, Xor(XorAll(SubSeq(p, 3, 9), 0), 68))

\* One frame built, by the builder of the chosen dialect or by the panic-off
\* script's.
BuildCmd ==
    /\ fn_ret = <<>>
    /\ fn_ret' = <<IF fn_arg[1] = "xor"
                   THEN build_atorch_cmd(fn_arg[2], fn_arg[3])
                   ELSE IF fn_arg[1] = "sum"
                   THEN make_button_packet(fn_arg[2], fn_arg[3])
                   ELSE panic_frame(fn_arg[2], fn_arg[3])>>
    /\ UNCHANGED <<pc, telemetry, detected_adu, learnv, nudge, mppt, waitv,
                   devconst, key_tasks, rxv, txv, results, keys_left, fn_arg>>

\* ------------------------------------------------- decoder, reassembler
\* data[0:2] == b'\xff\x55'
HasMagic(data) == Len(data) >= 2 /\ SubSeq(data, 1, 2) = MAGIC

\* int.from_bytes(data[o:o+n], 'big'); o is the 0-based offset of the code.
get16(data, o) == data[o + 1] * 256 + data[o + 2]
get24_little(data, o) == data[o + 3] * 65536 + data[o + 2] * 256 + data[o + 1]
get24(data, o) == data[o + 1] * 65536 + data[o + 2] * 256 + data[o + 3]
get32_short(data, o) == get24(data, o)
get32(data, o) ==
    data[o + 1] * 16777216 + data[o + 2] * 65536 + data[o + 3] * 256 + data[o + 4]

\* parse_packet: None (here <<>>) for a short input or one without the magic;
\* else the fields, in the order Spannung_V (0.1 V), Strom_A (mA),
\* Kapazitaet_Ah (0.01 Ah), Energie_Wh, Temperatur_C, h, min, sec.  The type
\* byte is not looked at.
parse_packet(data) ==
    IF Len(data) < FRAME_LEN \/ ~HasMagic(data) THEN <<>>
    ELSE <<get24(data, 4), get24(data, 7), get24(data, 10), get32(data, 13),
           get16(data, 24), get16(data, 26), data[29], data[30]>>

Spannung_V(p) == p[1]
Strom_A_from_voltage(p) == p[1]
Strom_A(p) == p[2]

\* handle_notify's loop "while len(buffer) >= 36": a head without the magic
\* loses one byte; else 36 bytes are cut off, and handed on if their type
\* byte is 0x01.  The result is <<the buffer left, the frames handed on>>.
RECURSIVE Drain(_, _)
Drain(buf, out) ==
    IF Len(buf) < FRAME_LEN THEN <<buf, out>>
    ELSE IF ~HasMagic(buf) THEN Drain(Tail(buf), out)
    ELSE LET frame == SubSeq(buf, 1, FRAME_LEN)
             rest == SubSeq(buf, FRAME_LEN + 1, Len(buf))
         IN IF frame[3] /= TYPE_STATUS THEN Drain(rest, out)
            ELSE Drain(rest, Append(out, frame))

\* handle_notify(_, data) on the buffer buf: an empty chunk and an 8-byte
\* reply are dropped; a chunk that starts with the magic is appended and the
\* buffer drained; any other chunk only counts as a misc message.
Notified(buf, data) ==
    IF data = <<>> THEN <<buf, <<>>, 0>>
    ELSE IF Len(data) = REPLY_LEN /\ HasMagic(data) /\ data[3] = TYPE_REPLY
    THEN <<buf, <<>>, 0>>
    ELSE IF HasMagic(data)
    THEN LET d == Drain(buf \o data, <<>>) IN <<d[1], d[2], 0>>
    ELSE <<buf, <<>>, 1>>

\* The decoder called on its own: parse_packet(fn_arg).
Decode ==
    /\ fn_ret = <<>>
    /\ fn_ret' = <<parse_packet(fn_arg)>>
    /\ UNCHANGED <<pc, telemetry, detected_adu, learnv, nudge, mppt, waitv,
                   devconst, key_tasks, rxv, txv, results, keys_left, fn_arg>>

\* A 36-byte frame of the given type whose voltage and current fields hold
\* v and i (each below 256), every other byte 0.
TestFrame(type, v, i) ==
    [k \in 1..FRAME_LEN |->
        IF k = 1 THEN 255 ELSE IF k = 2 THEN 85 ELSE IF k = 3 THEN type
        ELSE IF k = 7 THEN v ELSE IF k = 10 THEN i ELSE 0]

\* The 8-byte reply the device sends to a button frame.
ReplyFrame == <<255, 85, TYPE_REPLY, 0, 0, 0, 0, 0>>

\* Inbound streams: up to MaxGarbage bytes of garbage (which may hold the
\* magic), one 36-byte frame of type 0x01 or 0x02, and nothing or one more
\* status frame; or 72 bytes of garbage without the magic; or a reply, alone
\* or with a status frame right behind it.
GarbageBytes == {0, 85, 255}
GarbageSeqs == UNION {[1..n -> GarbageBytes] : n \in 0..MaxGarbage}
FirstFrames == {TestFrame(TYPE_STATUS, 100, 10), TestFrame(TYPE_REPLY, 100, 15)}
MoreFrames == {<<>>, TestFrame(TYPE_STATUS, 90, 20)}
Noise == [k \in 1..(2 * FRAME_LEN) |-> 0]
Streams ==
    {g \o f \o t : g \in GarbageSeqs, f \in FirstFrames, t \in MoreFrames}
    \cup {Noise, ReplyFrame, ReplyFrame \o TestFrame(TYPE_STATUS, 100, 10)}

\* Status frames with up to two bytes set, anywhere from byte 3 on.  (The top
\* byte of the 32-bit energy field stays below 0x80: Python's integers are
\* unbounded, the model checker's end at 2^31 - 1.)
ProbeValues == {1, 112, 255}
ProbeFrame(p, v, q, w) ==
    [k \in 1..FRAME_LEN |->
        IF k = 1 THEN 255 ELSE IF k = 2 THEN 85 ELSE IF k = 3 THEN TYPE_STATUS
        ELSE IF k = p THEN v ELSE IF k = q THEN w ELSE 0]
ProbeFrames ==
    {f \in {ProbeFrame(p, v, q, w) :
                p \in 4..FRAME_LEN, q \in 4..FRAME_LEN,
                v \in ProbeValues, w \in ProbeValues} : f[14] < 128}

\* The status frame with bytes 4..6 = 00 02 70 and bytes 7..9 = 00 03 E8.
ExampleFrame ==
    [k \in 1..FRAME_LEN |->
        IF k = 1 THEN 255 ELSE IF k = 2 THEN 85 ELSE IF k = 3 THEN TYPE_STATUS
        ELSE IF k = 6 THEN 2 ELSE IF k = 7 THEN 112
        ELSE IF k = 9 THEN 3 ELSE IF k = 10 THEN 232 ELSE 0]

\* Inputs the decoder must reject or might: empty, short by one byte, a wrong
\* first or second byte, another type byte, a button reply.
Malformed ==
    {<<>>, SubSeq(ExampleFrame, 1, FRAME_LEN - 1),
     [ExampleFrame EXCEPT ![1] = 0], [ExampleFrame EXCEPT ![2] = 0],
     [ExampleFrame EXCEPT ![3] = 0], [ExampleFrame EXCEPT ![3] = TYPE_REPLY],
     <<255, 85, TYPE_REPLY, 0, 0, 0, 0, 0>>}

DecoderInputs == ProbeFrames \cup {ExampleFrame, ExampleFrame \o <<0>>} \cup Malformed

\* Sizes in which the transport may cut the stream: single bytes, the 20
\* bytes of a default notification, whole frames; or all that is left.
ChunkSizes == {1, 20, FRAME_LEN}

\* One notification: the next chunk of the stream goes through
\* handle_notify; every frame handed on is decoded and, if that gave a
\* value, stored by print_decoded.
HandleNotify ==
    /\ AtAwait
    /\ fed < Len(stream)
    /\ \E n \in ChunkSizes \cup {Len(stream) - fed} :
         /\ fed + n <= Len(stream)
         /\ LET data == SubSeq(stream, fed + 1, fed + n)
                r == Notified(buffer, data)
                decoded == SelectSeq(r[2], LAMBDA f : parse_packet(f) /= <<>>)
            IN /\ fed' = fed + n
               /\ buffer' = r[1]
               /\ emitted' = emitted \o r[2]
               /\ misc_counter' = misc_counter + r[3]
               /\ IF decoded = <<>>
                  THEN UNCHANGED <<frame_counter, last_voltage_v, last_current_a>>
                  ELSE LET p == parse_packet(decoded[Len(decoded)])
                       IN /\ last_current_a' = Strom_A(p)
                          /\ last_voltage_v' = Spannung_V(p)
                          /\ frame_counter' = frame_counter + Len(decoded)
    /\ UNCHANGED <<pc, detected_adu, learnv, nudge, mppt, waitv, devconst, key_tasks, fnv,
                   txv, results, keys_left, stream>>

\* archive/atorch_logger.py
\* buffer.find(b"\xff\x55"), 0-based; -1 if the magic is not in the buffer.
FindMagic(buf) ==
    IF \E k \in 1..(Len(buf) - 1) : SubSeq(buf, k, k + 1) = MAGIC
    THEN (CHOOSE k \in 1..(Len(buf) - 1) :
            /\ SubSeq(buf, k, k + 1) = MAGIC
            /\ \A j \in 1..(k - 1) : SubSeq(buf, j, j + 1) /= MAGIC) - 1
    ELSE 0 - 1

\* The handler's loop "while the magic is in the buffer": stop if fewer than
\* 36 bytes follow the magic, else cut the buffer off after the frame and
\* hand the frame on.  Bytes before the magic go only when a frame is cut.
RECURSIVE LoggerDrain(_, _)
LoggerDrain(buf, out) ==
    LET start_index == FindMagic(buf)
    IN IF start_index < 0 THEN <<buf, out>>
       ELSE IF Len(buf) - start_index < FRAME_LEN THEN <<buf, out>>
       ELSE LoggerDrain(SubSeq(buf, start_index + FRAME_LEN + 1, Len(buf)),
                        Append(out, SubSeq(buf, start_index + 1,
                                           start_index + FRAME_LEN)))

\* One notification to the logger's handler: buffer.extend(data), the loop.
LoggerNotify ==
    /\ fed < Len(stream)
    /\ \E n \in ChunkSizes \cup {Len(stream) - fed} :
         /\ fed + n <= Len(stream)
         /\ LET d == LoggerDrain(buffer \o SubSeq(stream, fed + 1, fed + n), <<>>)
            IN /\ fed' = fed + n
               /\ buffer' = d[1]
               /\ emitted' = emitted \o d[2]
    /\ UNCHANGED <<pc, telemetry, detected_adu, learnv, nudge, mppt, waitv,
                   devconst, key_tasks, fnv, txv, results, keys_left, stream>>

\* archive/atorch_mpp_control.py
\* A key binding: asyncio.create_task(send_key(code)).  The handler returns
\* at once; the task is only scheduled.
KeyBinding ==
    /\ keys_left > 0
    /\ keys_left' = keys_left - 1
    /\ \E c \in KEY_CODES :
         key_tasks' = Append(key_tasks, [code |-> c, at |-> "created"])
    /\ UNCHANGED <<pc, telemetry, detected_adu, learnv, nudge, mppt, waitv,
                   devconst, rxv, fnv, txv, results>>

\* The event loop runs the oldest scheduled task: send_key builds the frame
\* and suspends in client.write_gatt_char.
SendKeyWrite ==
    /\ \E k \in DOMAIN key_tasks :
         /\ key_tasks[k].at = "created"
         /\ \A j \in 1..(k - 1) : key_tasks[j].at /= "created"
         /\ key_tasks' = [key_tasks EXCEPT ![k].at = "writing"]
         /\ Write(key_tasks[k].code, KEYPRESS_ADU)
    /\ UNCHANGED <<pc, telemetry, detected_adu, learnv, nudge, mppt, waitv,
                   devconst, rxv, fnv, results, keys_left>>

\* The transport completes a write; its task ends.
SendKeyDone ==
    /\ \E k \in DOMAIN key_tasks :
         /\ key_tasks[k].at = "writing"
         /\ key_tasks' = SubSeq(key_tasks, 1, k - 1)
                            \o SubSeq(key_tasks, k + 1, Len(key_tasks))
    /\ UNCHANGED <<pc, telemetry, detected_adu, learnv, nudge, mppt, waitv,
                   devconst, rxv, fnv, txv, results, keys_left>>

\* ------------------------------------------------- wait_for_new_frame
\* The call: the loop's first pass runs at once (the clock has just been
\* read), so a counter already past prev_fc returns True with no suspension;
\* otherwise the task sleeps.
CallWait(prev_fc, kind, ret) ==
    IF frame_counter > prev_fc
    THEN /\ got' = TRUE
         /\ pc' = ret
         /\ UNCHANGED <<wait_base, wait_ret, wait_kind>>
    ELSE /\ pc' = "wait_sleep"
         /\ wait_base' = prev_fc
         /\ wait_ret' = ret
         /\ wait_kind' = kind
         /\ got' = got

\* The call's own variables end with the call.
WaitReturn ==
    /\ wait_base' = NoneVal
    /\ wait_ret' = "none"
    /\ wait_kind' = "none"

\* A pass after a sleep, the deadline not yet reached: the counter is tested.
\* (A pass that finds the counter unchanged sleeps again: no state change.)
WaitFresh ==
    /\ pc = "wait_sleep"
    /\ frame_counter > wait_base
    /\ got' = TRUE
    /\ pc' = wait_ret
    /\ WaitReturn
    /\ UNCHANGED <<telemetry, detected_adu, learnv, nudge, mppt, devconst, key_tasks, rxv, fnv,
                   txv, results, keys_left>>

WaitForever == FALSE /\ UNCHANGED vars

WaitTimeoutReturnsTrue ==
    /\ pc = "wait_sleep"
    /\ got' = TRUE
    /\ pc' = wait_ret
    /\ WaitReturn
    /\ mppt' = [mppt EXCEPT !.timeouts = @ \cup {wait_kind}]
    /\ UNCHANGED <<telemetry, detected_adu, learnv, nudge, devconst, key_tasks, rxv, fnv, txv,
                   results, keys_left>>

\* A pass after a sleep, the deadline reached: the loop condition fails
\* before the counter is looked at.
WaitTimeout ==
    /\ pc = "wait_sleep"
    /\ got' = FALSE
    /\ pc' = wait_ret
    /\ WaitReturn
    /\ mppt' = [mppt EXCEPT !.timeouts = @ \cup {wait_kind}]
    /\ UNCHANGED <<telemetry, detected_adu, learnv, nudge, devconst, key_tasks, rxv, fnv, txv,
                   results, keys_left>>

\* ------------------------------------------------------------ learn_adu
LearnIdle == [adu |-> NoneVal, f0 |-> NoneVal, m0 |-> NoneVal, si |-> NoneVal,
              score |-> NoneVal, best_adu |-> NoneVal, best_score |-> NoneVal]
NoProbes == [a \in ADUS |-> <<>>]

\* di = 0 if si is None or ei is None else abs(ei-si);  di >= 0.0005
DeltaReached(si, ei) ==
    IF si = NoneVal \/ ei = NoneVal THEN FALSE ELSE 2 * Abs(ei - si) >= 1

\* score = (f1-f0) + (m1-m0) + (1 if di >= 0.0005 else 0)
ScoreOf(f0, m0, si, f1, m1, ei) ==
    (f1 - f0) + (m1 - m0) + (IF DeltaReached(si, ei) THEN 1 ELSE 0)

BetterOrEqual(score, best_score) == score >= best_score

\* if score > best_score: best_score, best_adu = score, adu
Better(score, best_score) == score > best_score

\* if best_score <= 0: _detected_adu = None  else: _detected_adu = best_adu
Resolve(best_score, best_adu) == IF best_score <= 0 THEN NoneVal ELSE best_adu

\* main: start_notify, then wait_for(status_ready.wait(), timeout=2.0), which
\* ends when a status frame has come or when the two seconds are over; then
\* learn_adu starts.
StatusWaitDone ==
    /\ pc = "status_wait"
    /\ pc' = "learn_probe"
    /\ lrn' = [LearnIdle EXCEPT !.adu = 0, !.best_score = -1]
    /\ UNCHANGED <<telemetry, detected_adu, probes, nudge, mppt, waitv,
                   devconst, key_tasks, rxv, fnv, txv, results, keys_left>>

\* Loop head: the baseline is read and PLUS is written at the probed index.
LearnProbe ==
    /\ pc = "learn_probe"
    /\ lrn' = [lrn EXCEPT !.f0 = frame_counter, !.m0 = misc_counter,
                          !.si = last_current_a]
    /\ Write(BTN_PLUS, lrn.adu)
    /\ pc' = "learn_settle"
    /\ UNCHANGED <<telemetry, detected_adu, probes, nudge, mppt, waitv,
                   devconst, key_tasks, rxv, fnv, results, keys_left>>

LearnScoreNoUndo ==
    /\ pc = "learn_settle"
    /\ lrn' = [lrn EXCEPT !.score = ScoreOf(lrn.f0, lrn.m0, lrn.si,
                                frame_counter, misc_counter, last_current_a)]
    /\ probes' = [probes EXCEPT ![lrn.adu] =
                    <<lrn.f0, lrn.m0, lrn.si,
                      frame_counter, misc_counter, last_current_a>>]
    /\ (IF lrn.score = NoneVal \/ lrn.adu = 0 THEN Write(BTN_MINUS, lrn.adu)
        ELSE UNCHANGED txv)
    /\ pc' = "learn_undo"
    /\ UNCHANGED <<telemetry, detected_adu, nudge, mppt, waitv, devconst, key_tasks, rxv, fnv,
                   results, keys_left>>

\* After the settle window: the score, then the compensating MINUS.
LearnScore ==
    /\ pc = "learn_settle"
    /\ lrn' = [lrn EXCEPT !.score = ScoreOf(lrn.f0, lrn.m0, lrn.si,
                                frame_counter, misc_counter, last_current_a)]
    /\ probes' = [probes EXCEPT ![lrn.adu] =
                    <<lrn.f0, lrn.m0, lrn.si,
                      frame_counter, misc_counter, last_current_a>>]
    /\ Write(BTN_MINUS, lrn.adu)
    /\ pc' = "learn_undo"
    /\ UNCHANGED <<telemetry, detected_adu, nudge, mppt, waitv, devconst, key_tasks, rxv, fnv,
                   results, keys_left>>

\* After the undo window: the running best, then the next index or the result.
LearnNextAdu ==
    /\ pc = "learn_undo"
    /\ LET up == Better(lrn.score, lrn.best_score)
           bs == IF up THEN lrn.score ELSE lrn.best_score
           ba == IF up THEN lrn.adu ELSE lrn.best_adu
       IN IF lrn.adu < 3
          THEN /\ lrn' = [lrn EXCEPT !.best_score = bs, !.best_adu = ba,
                                     !.adu = @ + 1]
               /\ pc' = "learn_probe"
               /\ UNCHANGED detected_adu
          ELSE /\ lrn' = [lrn EXCEPT !.best_score = bs, !.best_adu = ba]
               /\ detected_adu' = Resolve(bs, ba)
               /\ pc' = "learn_done"
    /\ UNCHANGED <<telemetry, probes, nudge, mppt, waitv, devconst, key_tasks, rxv, fnv, txv,
                   results, keys_left>>

\* learn_adu returns into main's key loop; its locals are gone.
LearnReturn ==
    /\ pc = "learn_done"
    /\ pc' = "main_loop"
    /\ lrn' = LearnIdle
    /\ probes' = NoProbes
    /\ UNCHANGED <<telemetry, detected_adu, nudge, mppt, waitv, devconst, key_tasks, rxv, fnv, txv,
                   results, keys_left>>

\* ------------------------------------------------------------ key loop
NudgeIdle == [left |-> 0, btn |-> NoneVal, next_adu |-> NoneVal]

\* send_button: the first frame of one button press: at the learned index,
\* or at the first of the four candidates when none is learned.
SendButtonFirst(code) ==
    Write(code, IF detected_adu /= NoneVal THEN detected_adu ELSE 0)

\* Keys + - (one step) and p n (the prompted count): cc_nudge(steps).
KeyNudge ==
    /\ pc = "main_loop"
    /\ keys_left > 0
    /\ keys_left' = keys_left - 1
    /\ \E steps \in ((0 - MaxNudge)..MaxNudge) \ {0} :
         nudge' = [left |-> Abs(steps),
                   btn |-> IF steps > 0 THEN BTN_PLUS ELSE BTN_MINUS,
                   next_adu |-> NoneVal]
    /\ pc' = "nudge_step"
    /\ UNCHANGED <<telemetry, detected_adu, learnv, mppt, waitv, devconst, key_tasks, rxv, fnv,
                   txv, results>>

\* cc_nudge's loop head: the next press, or the return to the key loop.
NudgeStep ==
    /\ pc = "nudge_step"
    /\ IF nudge.left = 0
       THEN /\ pc' = "main_loop"
            /\ nudge' = NudgeIdle
            /\ UNCHANGED txv
       ELSE /\ SendButtonFirst(nudge.btn)
            /\ nudge' = [nudge EXCEPT !.next_adu =
                           IF detected_adu /= NoneVal THEN 4 ELSE 1]
            /\ pc' = "nudge_sent"
    /\ UNCHANGED <<telemetry, detected_adu, learnv, mppt, waitv, devconst, key_tasks, rxv, fnv,
                   results, keys_left>>

\* After a write's sleep: the next candidate index of the fan-out, or, the
\* press complete, _wait_status_delta and the step delay, then the loop head.
NudgeSent ==
    /\ pc = "nudge_sent"
    /\ IF nudge.next_adu <= 3
       THEN /\ Write(nudge.btn, nudge.next_adu)
            /\ nudge' = [nudge EXCEPT !.next_adu = @ + 1]
            /\ pc' = "nudge_sent"
       ELSE /\ nudge' = [nudge EXCEPT !.left = @ - 1, !.next_adu = NoneVal]
            /\ pc' = "nudge_step"
            /\ UNCHANGED txv
    /\ UNCHANGED <<telemetry, detected_adu, learnv, mppt, waitv, devconst, key_tasks, rxv, fnv,
                   results, keys_left>>

\* Key e: m_tap writes SET once, at the learned index or at 0.
KeyMTap ==
    /\ pc = "main_loop"
    /\ keys_left > 0
    /\ keys_left' = keys_left - 1
    /\ Write(BTN_SET, IF detected_adu /= NoneVal THEN detected_adu ELSE 0)
    /\ UNCHANGED <<pc, telemetry, detected_adu, learnv, nudge, mppt, waitv,
                   devconst, key_tasks, rxv, fnv, results>>

\* Key s: send_onoff_toggle writes command 0x32 at index 2.
KeyStartStop ==
    /\ pc = "main_loop"
    /\ keys_left > 0
    /\ keys_left' = keys_left - 1
    /\ Write(CMD_ONOFF, ONOFF_ADU)
    /\ UNCHANGED <<pc, telemetry, detected_adu, learnv, nudge, mppt, waitv,
                   devconst, key_tasks, rxv, fnv, results>>

\* Key q: the loop is left and the program ends.
KeyQuit ==
    /\ pc = "main_loop"
    /\ pc' = "quit"
    /\ UNCHANGED <<telemetry, detected_adu, learnv, nudge, mppt, waitv,
                   devconst, key_tasks, rxv, fnv, txv, results, keys_left>>

\* ----------------------------------------------------------- mppt_sweep
\* The locals of one call, and three history fields: timeouts, the kinds of
\* wait that returned False in this call, start_fc, the frame counter when
\* the start values were taken, and burst_tx, the number of frames written
\* when the coarse loop last took this_prev.
MpptIdle == [max_steps |-> NoneVal, consec_downs |-> NoneVal,
             prev_fc |-> NoneVal, this_prev |-> NoneVal,
             best_p |-> NoneVal, best_u |-> NoneVal, best_i |-> NoneVal,
             best_pos_steps |-> NoneVal, downs |-> NoneVal,
             total_steps |-> NoneVal, burst_left |-> NoneVal,
             no_improve |-> NoneVal, pos |-> NoneVal, cycle |-> NoneVal,
             improved |-> FALSE, ret_left |-> NoneVal, ret_key |-> NoneVal,
             timeouts |-> {}, start_fc |-> NoneVal,
             burst_tx |-> NoneVal]

\* "x or 0.0"
OrZero(x) == IF x = NoneVal THEN 0 ELSE x

StartRefusedNever == FALSE

\* if _detected_adu is None: return
StartRefused == detected_adu = NoneVal

CoarseImprovesOnChange(p, best) == p /= best

\* p > best_p + 1e-9
CoarseImproves(p, best) == p > best

\* The powers are products of two binary doubles and the sum best_p + 0.05
\* is rounded once more, so powers that differ by exactly 0.05 W as decimals
\* compare as their doubles lie.  Of the readings delivered in this module
\* one pair of powers does so with the larger double on the left:
\* 5.0 * 0.035 is 0.17500000000000002, and 5.0 * 0.025 + 0.05 is 0.175.
\* (10.0 * 0.015 is 0.15, and 10.0 * 0.010 + 0.05 is 0.15000000000000002.)
BinaryTies == {<<1250, 1750>>}

\* p is not None and p > best_p + MPPT_FINE_TOL_W
FineImproves(p, best) ==
    /\ p /= NoneVal
    /\ \/ p > best + MPPT_FINE_TOL_W
       \/ <<best, p>> \in BinaryTies

TakeBestPowerOnly(m, p, where) ==
    [m EXCEPT !.best_p = p, !.best_pos_steps = where]

TakeBestKeepsPosition(m, p, where) ==
    [m EXCEPT !.best_p = p, !.best_u = OrZero(last_voltage_v),
              !.best_i = OrZero(last_current_a),
              !.best_pos_steps = IF @ = NoneVal THEN where ELSE @]

\* The three assignments that record a new best from the telemetry globals.
TakeBest(m, p, where) ==
    [m EXCEPT !.best_p = p, !.best_u = OrZero(last_voltage_v),
              !.best_i = OrZero(last_current_a), !.best_pos_steps = where]

\* send_button inside the sweep: _detected_adu is set, one frame is written.
SendButton(code) == Write(code, detected_adu)

\* Key m: main calls mppt_sweep(client) with the default parameters.
KeyMppt ==
    /\ pc = "main_loop"
    /\ keys_left > 0
    /\ keys_left' = keys_left - 1
    /\ mppt' = [MpptIdle EXCEPT !.max_steps = MPPT_MAX_STEPS,
                                !.consec_downs = MPPT_CONSECUTIVE_DOWNS]
    /\ pc' = "mppt_guard"
    /\ UNCHANGED <<telemetry, detected_adu, learnv, nudge, waitv, devconst, key_tasks, rxv, fnv,
                   txv, results>>

\* mppt_sweep(client, max_steps): a call with a cap of its own.
KeyMpptCapped ==
    /\ pc = "main_loop"
    /\ keys_left > 0
    /\ keys_left' = keys_left - 1
    /\ \E cap \in 1..MaxCapSteps :
         mppt' = [MpptIdle EXCEPT !.max_steps = cap,
                                  !.consec_downs = MPPT_CONSECUTIVE_DOWNS]
    /\ pc' = "mppt_guard"
    /\ UNCHANGED <<telemetry, detected_adu, learnv, nudge, waitv, devconst, key_tasks, rxv, fnv,
                   txv, results>>

\* The start guard, then the first wait for a fresh frame (3 s).
MpptGuard ==
    /\ pc = "mppt_guard"
    /\ IF StartRefused
       THEN /\ pc' = "main_loop"
            /\ mppt' = MpptIdle
            /\ UNCHANGED <<waitv, net_steps>>
       ELSE /\ mppt' = [mppt EXCEPT !.prev_fc = frame_counter]
            /\ net_steps' = 0
            /\ CallWait(frame_counter, "init", "mppt_start")
    /\ UNCHANGED <<telemetry, detected_adu, learnv, nudge, devconst, key_tasks, rxv, fnv, dev_pos,
                   dev_queue, n_tx, tx_adu, sent_fc, results, keys_left>>

\* The start values; without any measurement the sweep returns.
MpptStart ==
    /\ pc = "mppt_start"
    /\ IF current_power = NoneVal
       THEN /\ pc' = "main_loop"
            /\ mppt' = MpptIdle
       ELSE /\ pc' = "coarse_loop"
            /\ mppt' = [TakeBest(mppt, current_power, 0) EXCEPT
                          !.prev_fc = NoneVal, !.downs = 0, !.total_steps = 0,
                          !.start_fc = frame_counter]
    /\ got' = FALSE
    /\ UNCHANGED <<telemetry, detected_adu, learnv, nudge, wait_base,
                   wait_ret, wait_kind, devconst, key_tasks, rxv, fnv, txv, results, keys_left>>

\* while total_steps < max_steps: this_prev, burst
CoarseLoop ==
    /\ pc = "coarse_loop"
    /\ IF mppt.total_steps < mppt.max_steps
       THEN /\ mppt' = [mppt EXCEPT !.this_prev = frame_counter,
                          !.burst_tx = n_tx,
                          !.burst_left = Min(BURST_PER_FRAME,
                                             mppt.max_steps - mppt.total_steps)]
            /\ pc' = "coarse_burst"
       ELSE /\ mppt' = [mppt EXCEPT !.this_prev = NoneVal,
                                    !.burst_tx = NoneVal,
                                    !.burst_left = NoneVal]
            /\ pc' = "fine_init"
    /\ UNCHANGED <<telemetry, detected_adu, learnv, nudge, waitv, devconst, key_tasks, rxv, fnv,
                   txv, results, keys_left>>

\* One PLUS of the burst, or, the burst over, the wait for a frame (5 s)
\* against the counter as it was before the burst.
CoarseBurst ==
    /\ pc = "coarse_burst"
    /\ IF mppt.burst_left > 0
       THEN /\ SendButton(BTN_PLUS)
            /\ mppt' = [mppt EXCEPT !.total_steps = @ + 1, !.burst_left = @ - 1]
            /\ pc' = "coarse_sleep"
            /\ UNCHANGED waitv
       ELSE /\ CallWait(mppt.this_prev, "coarse", "coarse_eval")
            /\ mppt' = mppt
            /\ UNCHANGED txv
    /\ UNCHANGED <<telemetry, detected_adu, learnv, nudge, devconst, key_tasks, rxv, fnv, results,
                   keys_left>>

\* The sleeps after a PLUS of the burst are over.
CoarseWake ==
    /\ pc = "coarse_sleep"
    /\ pc' = "coarse_burst"
    /\ UNCHANGED <<telemetry, detected_adu, learnv, nudge, mppt, waitv,
                   devconst, key_tasks, rxv, fnv, txv, results, keys_left>>

CoarseEvalRetry ==
    /\ pc = "coarse_eval"
    /\ pc' = "coarse_loop"
    /\ got' = FALSE
    /\ UNCHANGED <<telemetry, detected_adu, learnv, nudge, mppt, wait_base,
                   wait_ret, wait_kind, devconst, key_tasks, rxv, fnv, txv, results, keys_left>>

\* After the wait: break on timeout, else compare the power with the best.
CoarseEval ==
    /\ pc = "coarse_eval"
    /\ LET p == current_power
           leave == [mppt EXCEPT !.this_prev = NoneVal, !.burst_tx = NoneVal,
                                 !.burst_left = NoneVal]
       IN IF ~got
          THEN /\ pc' = "fine_init"
               /\ mppt' = leave
          ELSE IF p = NoneVal
          THEN /\ pc' = "coarse_loop"
               /\ mppt' = mppt
          ELSE IF CoarseImproves(p, mppt.best_p)
          THEN /\ pc' = "coarse_loop"
               /\ mppt' = [TakeBest(mppt, p, mppt.total_steps) EXCEPT !.downs = 0]
          ELSE IF mppt.downs + 1 >= mppt.consec_downs
          THEN /\ pc' = "fine_init"
               /\ mppt' = [leave EXCEPT !.downs = @ + 1]
          ELSE /\ pc' = "coarse_loop"
               /\ mppt' = [mppt EXCEPT !.downs = @ + 1]
    /\ got' = FALSE
    /\ UNCHANGED <<telemetry, detected_adu, learnv, nudge, wait_base,
                   wait_ret, wait_kind, devconst, key_tasks, rxv, fnv, txv, results, keys_left>>

\* no_improve = 0; pos = best_pos_steps; for cycle in range(1, CYCLES+1)
FineInit ==
    /\ pc = "fine_init"
    /\ mppt' = [mppt EXCEPT !.no_improve = 0, !.pos = mppt.best_pos_steps,
                            !.cycle = 1]
    /\ pc' = IF MPPT_FINE_CYCLES >= 1 THEN "fine_plus" ELSE "return_best"
    /\ UNCHANGED <<telemetry, detected_adu, learnv, nudge, waitv, devconst, key_tasks, rxv, fnv,
                   txv, results, keys_left>>

\* Cycle head and the +1 attempt: PLUS is written, pos counts it.
FinePlus ==
    /\ pc = "fine_plus"
    /\ SendButton(BTN_PLUS)
    /\ mppt' = [mppt EXCEPT !.improved = FALSE, !.prev_fc = frame_counter,
                            !.pos = @ + 1]
    /\ pc' = "fine_plus_sent"
    /\ UNCHANGED <<telemetry, detected_adu, learnv, nudge, waitv, devconst, key_tasks, rxv, fnv,
                   results, keys_left>>

FinePlusSent ==
    /\ pc = "fine_plus_sent"
    /\ CallWait(mppt.prev_fc, "fine", "fine_plus_eval")
    /\ UNCHANGED <<telemetry, detected_adu, learnv, nudge, mppt, devconst, key_tasks, rxv, fnv,
                   txv, results, keys_left>>

\* +1 judged: break on timeout; accept; or write the reverting MINUS.
FinePlusEval ==
    /\ pc = "fine_plus_eval"
    /\ IF ~got
       THEN /\ pc' = "return_best"
            /\ mppt' = mppt
            /\ UNCHANGED txv
       ELSE IF FineImproves(current_power, mppt.best_p)
       THEN /\ pc' = "fine_minus"
            /\ mppt' = [TakeBest(mppt, current_power, mppt.pos) EXCEPT
                          !.improved = TRUE]
            /\ UNCHANGED txv
       ELSE /\ SendButton(BTN_MINUS)
            /\ mppt' = [mppt EXCEPT !.prev_fc = frame_counter, !.pos = @ - 1]
            /\ pc' = "fine_plus_rev_sent"
    /\ got' = FALSE
    /\ UNCHANGED <<telemetry, detected_adu, learnv, nudge, wait_base,
                   wait_ret, wait_kind, devconst, key_tasks, rxv, fnv, results, keys_left>>

\* The wait after the reverting MINUS; its result is not looked at.
FinePlusRevSent ==
    /\ pc = "fine_plus_rev_sent"
    /\ CallWait(mppt.prev_fc, "revert", "fine_minus")
    /\ UNCHANGED <<telemetry, detected_adu, learnv, nudge, mppt, devconst, key_tasks, rxv, fnv,
                   txv, results, keys_left>>

\* The -1 attempt: MINUS is written, pos counts it.
FineMinus ==
    /\ pc = "fine_minus"
    /\ SendButton(BTN_MINUS)
    /\ mppt' = [mppt EXCEPT !.prev_fc = frame_counter, !.pos = @ - 1]
    /\ pc' = "fine_minus_sent"
    /\ got' = FALSE
    /\ UNCHANGED <<telemetry, detected_adu, learnv, nudge, wait_base,
                   wait_ret, wait_kind, devconst, key_tasks, rxv, fnv, results, keys_left>>

FineMinusSent ==
    /\ pc = "fine_minus_sent"
    /\ CallWait(mppt.prev_fc, "fine", "fine_minus_eval")
    /\ UNCHANGED <<telemetry, detected_adu, learnv, nudge, mppt, devconst, key_tasks, rxv, fnv,
                   txv, results, keys_left>>

\* -1 judged: break on timeout; accept; or write the reverting PLUS.
FineMinusEval ==
    /\ pc = "fine_minus_eval"
    /\ IF ~got
       THEN /\ pc' = "return_best"
            /\ mppt' = mppt
            /\ UNCHANGED txv
       ELSE IF FineImproves(current_power, mppt.best_p)
       THEN /\ pc' = "fine_cycle_end"
            /\ mppt' = [TakeBest(mppt, current_power, mppt.pos) EXCEPT
                          !.improved = TRUE]
            /\ UNCHANGED txv
       ELSE /\ SendButton(BTN_PLUS)
            /\ mppt' = [mppt EXCEPT !.prev_fc = frame_counter, !.pos = @ + 1]
            /\ pc' = "fine_minus_rev_sent"
    /\ got' = FALSE
    /\ UNCHANGED <<telemetry, detected_adu, learnv, nudge, wait_base,
                   wait_ret, wait_kind, devconst, key_tasks, rxv, fnv, results, keys_left>>

FineMinusRevSent ==
    /\ pc = "fine_minus_rev_sent"
    /\ CallWait(mppt.prev_fc, "revert", "fine_cycle_end")
    /\ UNCHANGED <<telemetry, detected_adu, learnv, nudge, mppt, devconst, key_tasks, rxv, fnv,
                   txv, results, keys_left>>

FineCycleEndCountsAll ==
    /\ pc = "fine_cycle_end"
    /\ LET ni == mppt.no_improve + 1
           stop == ni >= MPPT_FINE_NO_IMPROVE_MAX
                   \/ mppt.cycle >= MPPT_FINE_CYCLES
       IN /\ mppt' = [mppt EXCEPT !.no_improve = ni,
                        !.cycle = IF stop THEN @ ELSE @ + 1]
          /\ pc' = IF stop THEN "return_best" ELSE "fine_plus"
    /\ got' = FALSE
    /\ UNCHANGED <<telemetry, detected_adu, learnv, nudge, wait_base,
                   wait_ret, wait_kind, devconst, key_tasks, rxv, fnv, txv, results, keys_left>>

\* Cycle end: the no-improvement counter, then the next cycle or the end.
FineCycleEnd ==
    /\ pc = "fine_cycle_end"
    /\ LET ni == IF mppt.improved THEN 0 ELSE mppt.no_improve + 1
           stop == (~mppt.improved /\ ni >= MPPT_FINE_NO_IMPROVE_MAX)
                   \/ mppt.cycle >= MPPT_FINE_CYCLES
       IN /\ mppt' = [mppt EXCEPT !.no_improve = ni,
                        !.cycle = IF stop THEN @ ELSE @ + 1]
          /\ pc' = IF stop THEN "return_best" ELSE "fine_plus"
    /\ got' = FALSE
    /\ UNCHANGED <<telemetry, detected_adu, learnv, nudge, wait_base,
                   wait_ret, wait_kind, devconst, key_tasks, rxv, fnv, txv, results, keys_left>>

\* if MPPT_RETURN_TO_BEST and pos != best_pos_steps: delta, key
ReturnBest ==
    /\ pc = "return_best"
    /\ IF MPPT_RETURN_TO_BEST /\ mppt.pos /= mppt.best_pos_steps
       THEN /\ mppt' = [mppt EXCEPT
                          !.ret_left = Abs(mppt.best_pos_steps - mppt.pos),
                          !.ret_key = IF mppt.best_pos_steps - mppt.pos > 0
                                      THEN BTN_PLUS ELSE BTN_MINUS]
            /\ pc' = "return_loop"
       ELSE /\ mppt' = mppt
            /\ pc' = "report"
    /\ UNCHANGED <<telemetry, detected_adu, learnv, nudge, waitv, devconst, key_tasks, rxv, fnv,
                   txv, results, keys_left>>

\* One key of the way back, or, all written, the last wait (2 s), whose
\* result is not looked at.
ReturnLoop ==
    /\ pc = "return_loop"
    /\ IF mppt.ret_left > 0
       THEN /\ SendButton(mppt.ret_key)
            /\ mppt' = [mppt EXCEPT !.ret_left = @ - 1]
            /\ pc' = "return_sleep"
            /\ UNCHANGED waitv
       ELSE /\ CallWait(frame_counter, "final", "report")
            /\ mppt' = mppt
            /\ UNCHANGED txv
    /\ UNCHANGED <<telemetry, detected_adu, learnv, nudge, devconst, key_tasks, rxv, fnv, results,
                   keys_left>>

ReturnWake ==
    /\ pc = "return_sleep"
    /\ pc' = "return_loop"
    /\ UNCHANGED <<telemetry, detected_adu, learnv, nudge, mppt, waitv,
                   devconst, key_tasks, rxv, fnv, txv, results, keys_left>>

\* f"{p:.3f}": the power, a product in units of 1e-4 W, printed with three
\* decimals, that is in mW.  A last digit other than 5 rounds to the nearest
\* mW; a last digit of 5 goes the way the binary product happens to lie, up
\* or down.  (Voltage and current have at most three decimals and print as
\* they are: 0.1 V and mA remain their units in the row.)
CsvPower(p) ==
    IF p % 10 = 5 THEN {p \div 10, p \div 10 + 1}
    ELSE {(p + 5) \div 10}

ReportUnlessAborted ==
    /\ pc = "report"
    /\ \E pm \in CsvPower(mppt.best_p) :
         results' = IF mppt.timeouts = {}
                    THEN Append(results, <<mppt.best_u, mppt.best_i, pm>>)
                    ELSE results
    /\ mppt' = MpptIdle
    /\ pc' = "main_loop"
    /\ got' = FALSE
    /\ UNCHANGED <<telemetry, detected_adu, learnv, nudge, wait_base,
                   wait_ret, wait_kind, devconst, key_tasks, rxv, fnv, txv, keys_left>>

\* The result is reported and _csv_append_result called with it: one row
\* <<voltage, current, power>> more in the CSV file; the sweep returns.
Report ==
    /\ pc = "report"
    /\ \E pm \in CsvPower(mppt.best_p) :
         results' = Append(results, <<mppt.best_u, mppt.best_i, pm>>)
    /\ mppt' = MpptIdle
    /\ pc' = "main_loop"
    /\ got' = FALSE
    /\ UNCHANGED <<telemetry, detected_adu, learnv, nudge, wait_base,
                   wait_ret, wait_kind, devconst, key_tasks, rxv, fnv, txv, keys_left>>

\* client.write_gatt_char raises inside the sweep (the link is lost, say):
\* neither _write_button, send_button, mppt_sweep nor main's key loop has an
\* except clause, so the exception unwinds the sweep and main (whose finally
\* stops the notifications) and leaves asyncio.run: the program ends.
WriteRaises ==
    /\ \/ pc = "coarse_burst" /\ mppt.burst_left > 0
       \/ pc = "fine_plus"
       \/ pc = "fine_plus_eval" /\ got /\ ~FineImproves(current_power, mppt.best_p)
       \/ pc = "fine_minus"
       \/ pc = "fine_minus_eval" /\ got /\ ~FineImproves(current_power, mppt.best_p)
       \/ pc = "return_loop" /\ mppt.ret_left > 0
    /\ pc' = "raised"
    /\ mppt' = MpptIdle
    /\ got' = FALSE
    /\ UNCHANGED <<telemetry, detected_adu, learnv, nudge, wait_base,
                   wait_ret, wait_kind, devconst, key_tasks, rxv, fnv, txv, results,
                   keys_left>>

\* -------------------------------------------------------- specifications
WaitIdle ==
    /\ wait_base = NoneVal
    /\ wait_ret = "none"
    /\ wait_kind = "none"
    /\ got = FALSE

\* Nothing received so far: buffer = bytearray().
RxIdle ==
    /\ buffer = <<>>
    /\ stream = <<>>
    /\ fed = 0
    /\ emitted = <<>>

\* No pure function under study.
FnIdle ==
    /\ fn_arg = <<>>
    /\ fn_ret = <<>>

\* The program as started: connected, no telemetry yet, nothing learned.
\* The device honors index 2.
Init ==
    /\ pc = "status_wait"
    /\ frame_counter = 0
    /\ misc_counter = 0
    /\ last_voltage_v = NoneVal
    /\ last_current_a = NoneVal
    /\ detected_adu = NoneVal
    /\ lrn = LearnIdle
    /\ probes = NoProbes
    /\ nudge = NudgeIdle
    /\ mppt = MpptIdle
    /\ WaitIdle
    /\ honored = 2
    /\ dev_pos = 0
    /\ dev_sim = FALSE
    /\ dev_queue = <<>>
    /\ n_tx = 0
    /\ tx_adu = NoneVal
    /\ sent_fc = NoneVal
    /\ key_tasks = <<>>
    /\ net_steps = 0
    /\ results = <<>>
    /\ keys_left = MaxKeys
    /\ RxIdle
    /\ FnIdle

\* The program after learn_adu has returned into the key loop, no status
\* frame received so far: the index unresolved (nothing came in while it was
\* learned), or resolved, on the strength of one misc message, to the index
\* the firmware honors.  Eight frames were written, the PLUS and the MINUS
\* at the honored index cancelling, the last of them at index 3.
InitSweep ==
    /\ pc = "main_loop"
    /\ frame_counter = 0
    /\ last_voltage_v = NoneVal
    /\ last_current_a = NoneVal
    /\ honored = 2
    /\ detected_adu \in {NoneVal, honored}
    /\ misc_counter = IF detected_adu = NoneVal THEN 0 ELSE 1
    /\ lrn = LearnIdle
    /\ probes = NoProbes
    /\ nudge = NudgeIdle
    /\ mppt = MpptIdle
    /\ WaitIdle
    /\ dev_pos = 0
    /\ dev_sim = FALSE
    /\ dev_queue = <<>>
    /\ n_tx = 8
    /\ tx_adu = 3
    /\ sent_fc = NoneVal
    /\ key_tasks = <<>>
    /\ net_steps = 0
    /\ results = <<>>
    /\ keys_left = MaxSweeps
    /\ RxIdle
    /\ FnIdle

\* The same, the index learned being the honored one, with a device whose
\* every status frame carries the same reading.
InitFlat == InitSweep /\ detected_adu = honored

\* The program in its key loop after learn_adu, with the simulated device:
\* of the eight frames learn_adu wrote, the device obeyed and answered the
\* PLUS and the MINUS at the honored index, both answers were delivered, and
\* the first of them, inside the probe's settle window, resolved the index.
InitPeak ==
    /\ pc = "main_loop"
    /\ frame_counter = 2
    /\ last_voltage_v = PeakReading(0)[1]
    /\ last_current_a = PeakReading(0)[2]
    /\ honored = 2
    /\ detected_adu = honored
    /\ misc_counter = 0
    /\ lrn = LearnIdle
    /\ probes = NoProbes
    /\ nudge = NudgeIdle
    /\ mppt = MpptIdle
    /\ WaitIdle
    /\ dev_pos = 0
    /\ dev_sim = TRUE
    /\ dev_queue = <<>>
    /\ n_tx = 8
    /\ tx_adu = 3
    /\ sent_fc = NoneVal
    /\ key_tasks = <<>>
    /\ net_steps = 0
    /\ results = <<>>
    /\ keys_left = MaxSweeps
    /\ RxIdle
    /\ FnIdle

Notify == NotifyStatus(MaxFrames, Readings) \/ NotifyMisc

Learn == StatusWaitDone \/ LearnProbe \/ LearnScore \/ LearnNextAdu \/ LearnReturn

Keys == KeyNudge \/ NudgeStep \/ NudgeSent \/ KeyMTap \/ KeyStartStop \/ KeyQuit

Wait == WaitFresh \/ WaitTimeout

Sweep ==
    \/ MpptGuard \/ MpptStart \/ CoarseLoop \/ CoarseBurst \/ CoarseWake
    \/ CoarseEval \/ FineInit \/ FinePlus \/ FinePlusSent \/ FinePlusEval
    \/ FinePlusRevSent \/ FineMinus \/ FineMinusSent \/ FineMinusEval
    \/ FineMinusRevSent \/ FineCycleEnd \/ ReturnBest \/ ReturnLoop
    \/ ReturnWake \/ Report

Next == Notify \/ Learn \/ Keys \/ KeyMppt \/ Wait \/ Sweep

Spec == Init /\ [][Next]_vars

\* The task's own steps are taken, and an operator who has keys left goes on
\* pressing them, the MPPT key among them.
FairSpec ==
    /\ Spec
    /\ WF_vars(Learn \/ NudgeStep \/ NudgeSent \/ Wait \/ Sweep)
    /\ SF_vars(KeyMppt)

\* learn_adu alone, from the program's start to its return.
NextLearn == NotifyStatus(MaxLearnFrames, Readings) \/ NotifyMisc \/ Learn

SpecLearn == Init /\ [][NextLearn]_vars

\* Sweeps alone, requested in the key loop after learning.
NextSweep == NotifyStatus(MaxSweepFrames, Readings) \/ KeyMppt \/ Wait \/ Sweep

SpecSweep == InitSweep /\ [][NextSweep]_vars

\* The task's own steps are taken: the event loop resumes a task whose sleep
\* is over, and the clock reaches every deadline.
NextFair == NotifyStatus(MaxFairFrames, Readings) \/ KeyMppt \/ Wait \/ Sweep

FairSweep == InitSweep /\ [][NextFair]_vars /\ WF_vars(Wait \/ Sweep)

\* The program in its key loop after learn_adu resolved the index, as in
\* InitSweep, in a run that records the frame counter at each write.
InitTrack ==
    /\ pc = "main_loop"
    /\ frame_counter = 0
    /\ last_voltage_v = NoneVal
    /\ last_current_a = NoneVal
    /\ honored = 2
    /\ detected_adu = honored
    /\ misc_counter = 1
    /\ lrn = LearnIdle
    /\ probes = NoProbes
    /\ nudge = NudgeIdle
    /\ mppt = MpptIdle
    /\ WaitIdle
    /\ dev_pos = 0
    /\ dev_sim = FALSE
    /\ dev_queue = <<>>
    /\ n_tx = 8
    /\ tx_adu = 3
    /\ sent_fc = 0
    /\ key_tasks = <<>>
    /\ net_steps = 0
    /\ results = <<>>
    /\ keys_left = MaxSweeps
    /\ RxIdle
    /\ FnIdle

SpecTrack == InitTrack /\ [][NextFair]_vars

\* Sweeps over a transport whose writes may fail.
NextFail ==
    NotifyStatus(MaxSweepFrames, Readings) \/ KeyMppt \/ Wait \/ Sweep \/ WriteRaises

SpecFail == InitSweep /\ [][NextFail]_vars

\* Sweeps whose readings include powers that are not whole milliwatts:
\* 0.1 W, 0.1515 W and 0.1767 W.
CsvReadings == {<<100, 10>>, <<101, 15>>, <<93, 19>>}

NextCsv == NotifyStatus(MaxCsvFrames, CsvReadings) \/ KeyMppt \/ Wait \/ Sweep

SpecCsv == InitSweep /\ [][NextCsv]_vars

\* Sweeps with small caps, the readings among them 5.0 V at 25 mA and at
\* 35 mA, whose powers differ by the fine tolerance.
CapReadings == {<<100, 10>>, <<50, 25>>, <<50, 35>>}

NextCap == NotifyStatus(MaxCsvFrames, CapReadings) \/ KeyMpptCapped \/ Wait \/ Sweep

SpecCap == InitSweep /\ [][NextCap]_vars

\* One sweep against a device that reports one steady reading.
NextFlat == NotifyStatus(MaxFlatFrames, {<<100, 10>>}) \/ KeyMppt \/ Wait \/ Sweep

SpecFlat == InitFlat /\ [][NextFlat]_vars

\* One sweep against the simulated device.
\* The transport delivers an answer before MaxLag later answers queue up
\* behind it: the task's sleep does not end on a full queue.
NextPeak ==
    \/ NotifyQueued
    \/ Len(dev_queue) < MaxLag /\ (KeyMppt \/ Wait \/ Sweep)

SpecPeak == InitPeak /\ [][NextPeak]_vars

\* Sweeps with small caps against the simulated device: the coarse phase
\* ends well below the peak and the fine phase climbs on.  An answer on its
\* way is delivered before the wait for it runs out (a wait times out only
\* with nothing queued) and before more than MaxClimbLag answers are queued.
NextClimb ==
    \/ NotifyQueued
    \/ /\ \/ KeyMpptCapped
          \/ WaitFresh
          \/ dev_queue = <<>> /\ WaitTimeout
          \/ Sweep
       /\ Len(dev_queue') <= MaxClimbLag

SpecClimb == InitPeak /\ [][NextClimb]_vars

\* The key loop alone, after learn_adu has returned: the firmware honors any
\* one of the four indices, and the index is unresolved or was resolved, on
\* the strength of one misc message, to the honored one.
InitKeys ==
    /\ pc = "main_loop"
    /\ frame_counter = 0
    /\ last_voltage_v = NoneVal
    /\ last_current_a = NoneVal
    /\ honored \in ADUS
    /\ detected_adu \in {NoneVal, honored}
    /\ misc_counter = IF detected_adu = NoneVal THEN 0 ELSE 1
    /\ lrn = LearnIdle
    /\ probes = NoProbes
    /\ nudge = NudgeIdle
    /\ mppt = MpptIdle
    /\ WaitIdle
    /\ dev_pos = 0
    /\ dev_sim = FALSE
    /\ dev_queue = <<>>
    /\ n_tx = 8
    /\ tx_adu = 3
    /\ sent_fc = NoneVal
    /\ key_tasks = <<>>
    /\ net_steps = 0
    /\ results = <<>>
    /\ keys_left = MaxKeys
    /\ RxIdle
    /\ FnIdle

\* The task idle in its key loop after an unresolved learn_adu, no key to
\* come.
TaskIdle ==
    /\ pc = "main_loop"
    /\ frame_counter = 0
    /\ last_voltage_v = NoneVal
    /\ last_current_a = NoneVal
    /\ honored = 2
    /\ detected_adu = NoneVal
    /\ misc_counter = 0
    /\ lrn = LearnIdle
    /\ probes = NoProbes
    /\ nudge = NudgeIdle
    /\ mppt = MpptIdle
    /\ WaitIdle
    /\ dev_pos = 0
    /\ dev_sim = FALSE
    /\ dev_queue = <<>>
    /\ n_tx = 8
    /\ tx_adu = 3
    /\ sent_fc = NoneVal
    /\ key_tasks = <<>>
    /\ net_steps = 0
    /\ results = <<>>
    /\ keys_left = 0

\* The notification callback alone: one inbound stream, cut into chunks in
\* every way.
InitRx ==
    /\ TaskIdle
    /\ buffer = <<>>
    /\ stream \in Streams
    /\ fed = 0
    /\ emitted = <<>>
    /\ FnIdle

SpecRx == InitRx /\ [][HandleNotify]_vars

\* The frame builders alone: every command code and every index of one
\* byte, in either dialect and for the panic-off script.
InitCmd ==
    /\ TaskIdle
    /\ RxIdle
    /\ fn_arg \in {"xor", "sum", "panic"} \X (0..255) \X (0..255)
    /\ fn_ret = <<>>

SpecCmd == InitCmd /\ [][BuildCmd]_vars

\* parse_packet alone, on one input.
InitDecode ==
    /\ TaskIdle
    /\ RxIdle
    /\ fn_arg \in DecoderInputs
    /\ fn_ret = <<>>

SpecDecode == InitDecode /\ [][Decode]_vars

\* The logger's handler alone, on the same streams.
SpecLog == InitRx /\ [][LoggerNotify]_vars

\* archive/atorch_mpp_control.py as started: connected, main suspended in
\* app.run_async(), no key pressed yet.
InitMpp ==
    /\ pc = "run_async"
    /\ frame_counter = 0
    /\ misc_counter = 0
    /\ last_voltage_v = NoneVal
    /\ last_current_a = NoneVal
    /\ detected_adu = NoneVal
    /\ lrn = LearnIdle
    /\ probes = NoProbes
    /\ nudge = NudgeIdle
    /\ mppt = MpptIdle
    /\ WaitIdle
    /\ honored = 2
    /\ dev_pos = 0
    /\ dev_sim = FALSE
    /\ dev_queue = <<>>
    /\ n_tx = 0
    /\ tx_adu = NoneVal
    /\ sent_fc = NoneVal
    /\ key_tasks = <<>>
    /\ net_steps = 0
    /\ results = <<>>
    /\ keys_left = MaxPresses
    /\ RxIdle
    /\ FnIdle

NextMpp == KeyBinding \/ SendKeyWrite \/ SendKeyDone

SpecMpp == InitMpp /\ [][NextMpp]_vars

NextKeys == NotifyStatus(MaxFrames, Readings) \/ Keys

SpecKeys == InitKeys /\ [][NextKeys]_vars

\* ----------------------------------------------------------------- claims
\* The positions of one sweep, between its call and its return.
SweepPcs == {"mppt_guard", "mppt_start", "coarse_loop", "coarse_burst",
             "coarse_sleep", "coarse_eval", "fine_init", "fine_plus",
             "fine_plus_sent", "fine_plus_eval", "fine_plus_rev_sent",
             "fine_minus", "fine_minus_sent", "fine_minus_eval",
             "fine_minus_rev_sent", "fine_cycle_end", "return_best",
             "return_loop", "return_sleep", "report", "wait_sleep"}

\* C1: at the end of a sweep (return-to-best on) in which no wait timed out
\* and every command was obeyed, the PLUS commands minus the MINUS commands
\* written since the sweep started equal the recorded best position.
C1_ReturnsToBest ==
    (pc = "report" /\ MPPT_RETURN_TO_BEST /\ mppt.timeouts = {}
       /\ detected_adu = honored)
    => net_steps = mppt.best_pos_steps

\* C2: within one sweep the recorded best power never decreases, whatever
\* readings arrive.
C2_BestNeverDecreases ==
    [][(mppt.best_p /= NoneVal /\ mppt'.best_p /= NoneVal)
         => mppt'.best_p >= mppt.best_p]_vars

\* A worse point was counted after the best had been raised by a burst.
C2_Witness ==
    /\ pc \in SweepPcs
    /\ mppt.best_pos_steps /= NoneVal /\ mppt.best_pos_steps >= 3
    /\ mppt.downs >= 1
    /\ current_power < mppt.best_p

FinePcs == {"fine_init", "fine_plus", "fine_plus_sent", "fine_plus_eval",
            "fine_plus_rev_sent", "fine_minus", "fine_minus_sent",
            "fine_minus_eval", "fine_minus_rev_sent", "fine_cycle_end"}
CoarsePcs == {"coarse_loop", "coarse_burst", "coarse_sleep"}

Silent == frame_counter = mppt.start_fc

Started == pc \in SweepPcs /\ mppt.best_p /= NoneVal

\* C5 as claimed: every call of the sweep that passes the index guard comes
\* to its final report, whatever telemetry arrives or fails to arrive.
C5_AlwaysReports ==
    (pc = "mppt_guard" /\ detected_adu /= NoneVal) ~> (pc = "report")

\* C5 as amended: every call of the sweep returns, whatever telemetry arrives
\* or fails to arrive, and a sweep that has taken its start values comes to
\* its report.
C5_SweepTerminates ==
    /\ (pc = "mppt_guard") ~> (pc = "main_loop")
    /\ Started ~> (pc = "report")

\* A sweep has returned, its report appended.
C5_Witness ==
    /\ pc = "main_loop"
    /\ Len(results) = 1
    /\ keys_left = MaxSweeps - 1

\* C6: against the simulated device peaking at position 12, each command
\* answered by one status frame delivered in its own time, the sweep with
\* default settings, none of its waits after a command timing out, ends with
\* a recorded best position within 1 of 12.
C6_ConvergesNearPeak ==
    (pc = "report" /\ mppt.timeouts \subseteq {"init"})
    => Abs(mppt.best_pos_steps - 12) <= 1

\* C7: a sweep requested while the index is unresolved is refused: the call
\* returns at once, nothing is written to the transport, the telemetry is
\* untouched and no result row is appended.
C7_RefusedWhenUnresolved ==
    [][(pc = "mppt_guard" /\ detected_adu = NoneVal) =>
         /\ pc' = "main_loop"
         /\ n_tx' = n_tx
         /\ telemetry' = telemetry
         /\ results' = results]_vars

\* A request has been refused.
C7_Witness ==
    /\ pc = "main_loop"
    /\ detected_adu = NoneVal
    /\ keys_left < MaxSweeps
    /\ results = <<>>

\* C8: a sweep requested after learning ended unresolved becomes, with
\* whatever the operator does next, a sweep that writes commands.
C8_SweepAfterUnresolved ==
    (pc = "mppt_guard" /\ detected_adu = NoneVal) ~> (pc = "coarse_sleep")

\* Why no sequence of keys helps: only learn_adu's last step assigns the
\* index, and learn_adu is not run again.
IndexSetOnce == [][pc /= "learn_undo" => detected_adu' = detected_adu]_vars

LearnOnce == [][pc' = "learn_probe" => pc \in {"status_wait", "learn_undo"}]_vars

\* The score of a probe, from what was observed around it.
ProbeScore(o) ==
    (o[4] - o[1]) + (o[5] - o[2])
    + (IF o[3] /= NoneVal /\ o[6] /= NoneVal /\ o[6] /= o[3] THEN 1 ELSE 0)
MaxProbeScore ==
    CHOOSE x \in {ProbeScore(probes[a]) : a \in ADUS} :
        \A a \in ADUS : ProbeScore(probes[a]) <= x
LowestBest ==
    CHOOSE a \in ADUS :
        /\ ProbeScore(probes[a]) = MaxProbeScore
        /\ \A b \in ADUS : ProbeScore(probes[b]) = MaxProbeScore => a <= b

\* C9: the learner's result is a function of the four scores: unresolved if
\* the greatest score is at most 0, else the lowest index with that score.
C9_LearnerResult ==
    pc = "learn_done" =>
        detected_adu = (IF MaxProbeScore <= 0 THEN NoneVal ELSE LowestBest)

\* Two indices tie at a positive greatest score, and the lower one is taken.
C9_Witness ==
    /\ pc = "learn_done"
    /\ MaxProbeScore > 0
    /\ ProbeScore(probes[1]) = MaxProbeScore
    /\ ProbeScore(probes[3]) = MaxProbeScore
    /\ detected_adu = 1

\* C10: an index the learner resolves is the one the firmware honors.
C10_ResolvedIsHonored ==
    (pc = "learn_done" /\ detected_adu /= NoneVal) => detected_adu = honored

\* C11: once an index is resolved, every frame written to the transport,
\* button press or start/stop toggle, carries that index in byte 3.
C11_FramesCarryLearnedIndex ==
    [][(detected_adu /= NoneVal /\ n_tx' /= n_tx) => tx_adu' = detected_adu]_vars

\* C12: while the index is unresolved, every command sent from the key loop
\* is written once to each of the indices 0, 1, 2, 3 in ascending order: the
\* first frame of a send goes to index 0 and does not complete the send, each
\* further frame goes to the next index, and the send is complete only after
\* index 3.
C12_BroadcastWhenUnresolved ==
    [][(detected_adu = NoneVal /\ pc \in {"main_loop", "nudge_step", "nudge_sent"})
         => /\ (n_tx' /= n_tx /\ pc /= "nudge_sent")
                 => (tx_adu' = 0 /\ pc' = "nudge_sent")
            /\ (n_tx' /= n_tx /\ pc = "nudge_sent")
                 => (tx_adu' = tx_adu + 1 /\ tx_adu' <= 3)
            /\ (pc = "nudge_sent" /\ pc' = "nudge_step") => tx_adu = 3]_vars

\* C13: the frames handed on depend only on the byte stream, not on how it
\* is cut into chunks: once the whole stream is delivered, they are the
\* frames the same stream gives when delivered as one chunk.
C13_ChunkingIndependent ==
    fed = Len(stream) => emitted = Notified(<<>>, stream)[2]

\* The frame that ends the garbage: the first 36 bytes after it.
FirstFrameOf(str, g) == SubSeq(str, g + 1, g + FRAME_LEN)

\* C14: garbage followed by one valid status frame gives exactly that frame,
\* however long the garbage and however the stream is cut.
C14_FrameAfterGarbage ==
    \A g \in 0..MaxGarbage :
        (/\ fed = Len(stream)
         /\ Len(stream) = g + FRAME_LEN
         /\ FirstFrameOf(stream, g) \in FirstFrames
         /\ FirstFrameOf(stream, g)[3] = TYPE_STATUS)
        => emitted = <<FirstFrameOf(stream, g)>>

\* C15: after every call of the reassembler the buffer holds less than one
\* frame, however much was fed, pure garbage without the magic included.
C15_BufferBounded == Len(buffer) < FRAME_LEN

\* C16: the decoder returns no value for an input that is shorter than 36
\* bytes, or does not start with FF 55, or has a type byte other than 0x01.
C16_DecoderRejects ==
    (/\ fn_ret /= <<>>
     /\ (\/ Len(fn_arg) < FRAME_LEN
         \/ ~HasMagic(fn_arg)
         \/ fn_arg[3] /= TYPE_STATUS))
    => fn_ret[1] = <<>>

\* The big-endian value of bytes a..b (counted from 1) of d.
RECURSIVE BigEndian(_, _, _)
BigEndian(d, a, b) == IF b < a THEN 0 ELSE BigEndian(d, a, b - 1) * 256 + d[b]

\* C18: for a 36-byte frame with magic and type 0x01 the decoder returns
\* voltage (in 0.1 V) = bytes 4..6, current (in mA) = bytes 7..9, charge (in
\* 0.01 Ah) = bytes 10..12, energy = bytes 13..16, temperature = bytes
\* 24..25, hours = bytes 26..27, all big-endian, minutes = byte 28 and
\* seconds = byte 29 (bytes counted from 0).
C18_FieldsDecoded ==
    (/\ fn_ret /= <<>>
     /\ Len(fn_arg) = FRAME_LEN
     /\ HasMagic(fn_arg)
     /\ fn_arg[3] = TYPE_STATUS)
    => fn_ret[1] = <<BigEndian(fn_arg, 5, 7), BigEndian(fn_arg, 8, 10),
                     BigEndian(fn_arg, 11, 13), BigEndian(fn_arg, 14, 17),
                     BigEndian(fn_arg, 25, 26), BigEndian(fn_arg, 27, 28),
                     fn_arg[29], fn_arg[30]>>

\* A frame was decoded whose energy field has its top byte set and whose
\* seconds are not 0.
C18_Witness ==
    /\ fn_ret /= <<>>
    /\ Len(fn_arg) = FRAME_LEN
    /\ fn_arg[14] = 112
    /\ fn_arg[30] = 255
    /\ fn_ret[1] /= <<>>
    /\ fn_ret[1][4] = 112 * 16777216
    /\ fn_ret[1][8] = 255

\* C19 as claimed: bytes 4..6 = 00 02 70 decode to 99.2 V (992 tenths) and
\* bytes 7..9 = 00 03 E8 to 1.000 A (1000 mA).
C19_ExampleAsClaimed ==
    (fn_ret /= <<>> /\ fn_arg = ExampleFrame)
    => (Spannung_V(fn_ret[1]) = 992 /\ Strom_A(fn_ret[1]) = 1000)

\* C19 as amended: bytes 4..6 = 00 02 70 decode to 62.4 V (624 tenths) and
\* bytes 7..9 = 00 03 E8 to 1.000 A (1000 mA).
C19_ExampleDecodes ==
    (fn_ret /= <<>> /\ fn_arg = ExampleFrame)
    => (Spannung_V(fn_ret[1]) = 624 /\ Strom_A(fn_ret[1]) = 1000)

\* The example frame has been decoded.
C19_Witness == fn_ret /= <<>> /\ fn_arg = ExampleFrame /\ fn_ret[1] /= <<>>

\* Bit k of a, and a XOR b as the sum of the bits that differ.
Bit(a, k) == (a \div (2 ^ k)) % 2
BitXor(a, b) ==
    LET D(k) == IF Bit(a, k) /= Bit(b, k) THEN 2 ^ k ELSE 0
    IN D(0) + D(1) + D(2) + D(3) + D(4) + D(5) + D(6) + D(7) + D(8) + D(9)

\* C17: for every command code and index of one byte and either dialect the
\* built frame is the 10 bytes FF 55 11 <index> <code> 00 00 00 00 <chk>,
\* where chk, recomputed over bytes 2..8 of the frame, is 0x44 XOR-ed with
\* each of them (XOR dialect) or their sum XOR 0x44, modulo 256 (SUM dialect).
C17_ChecksumMatches ==
    fn_ret /= <<>> =>
        LET f == fn_ret[1]
        IN /\ Len(f) = 10
           /\ SubSeq(f, 1, 9) = <<255, 85, 17, fn_arg[3], fn_arg[2], 0, 0, 0, 0>>
           /\ f[10] =
                IF fn_arg[1] /= "sum"
                THEN BitXor(BitXor(BitXor(BitXor(BitXor(BitXor(BitXor(
                        68, f[3]), f[4]), f[5]), f[6]), f[7]), f[8]), f[9])
                ELSE BitXor(f[3] + f[4] + f[5] + f[6] + f[7] + f[8] + f[9], 68) % 256

\* A SUM-dialect frame was built whose byte sum exceeds one byte, and an
\* XOR-dialect frame for the start/stop toggle at index 2 has checksum 0x65.
C17_Witness ==
    /\ fn_ret /= <<>>
    /\ \/ (fn_arg[1] = "sum" /\ 17 + fn_arg[2] + fn_arg[3] > 511)
       \/ (fn_arg = <<"xor", CMD_ONOFF, ONOFF_ADU>> /\ fn_ret[1][10] = 101)

\* C20: a write that fails during a sweep does not end the sweep: a sweep
\* that has taken its start values is left only through its report, a result
\* row appended that carries the best point found.
C20_WriteFailureContained ==
    [][(Started /\ pc' \notin SweepPcs)
         => /\ pc = "report"
            /\ Len(results') = Len(results) + 1
            /\ results'[Len(results')][1] = mppt.best_u
            /\ results'[Len(results')][2] = mppt.best_i]_vars

\* C21: a sweep that passes both start guards appends exactly one row when
\* it returns, the row holding the best voltage and current as recorded at
\* that moment and the best power to the milliwatt; a sweep refused at
\* either guard appends none; and a row is appended at no other time.
C21_OneRowPerSweep ==
    [][/\ (pc \in SweepPcs /\ pc' \notin SweepPcs) =>
            IF Started
            THEN /\ Len(results') = Len(results) + 1
                 /\ SubSeq(results', 1, Len(results)) = results
                 /\ LET row == results'[Len(results')]
                    IN /\ row[1] = mppt.best_u
                       /\ row[2] = mppt.best_i
                       /\ Abs(10 * row[3] - mppt.best_p) <= 5
            ELSE results' = results
       /\ (results' /= results) => (pc = "report" /\ pc' = "main_loop")]_vars

\* A sweep, one of its waits timed out, has returned with a row whose power
\* was rounded: the best was 0.1767 W, the row says 177 mW.
C21_Witness ==
    /\ pc = "main_loop"
    /\ Len(results) = 1
    /\ results[1] = <<93, 19, 177>>

\* C22: at no time are two writes outstanding at the transport, whatever
\* keys are pressed.
C22_WritesSerialized ==
    Cardinality({k \in DOMAIN key_tasks : key_tasks[k].at = "writing"}) <= 1

\* C23: whatever the task reads comes from one status frame: the voltage
\* and the current in the telemetry are at all times the pair one frame
\* carried (or both unset, no frame counted yet); they change only together
\* with the counter's step; a recorded best is such a pair with its product;
\* and when a wait has succeeded the counter read is past the baseline.
C23_NoTornReads ==
    /\ [](/\ <<last_voltage_v, last_current_a>>
                \in CsvReadings \cup {<<NoneVal, NoneVal>>}
          /\ (frame_counter = 0) = (last_voltage_v = NoneVal)
          /\ Started => /\ <<mppt.best_u, mppt.best_i>> \in CsvReadings
                        /\ mppt.best_p = mppt.best_u * mppt.best_i
          /\ (pc = "coarse_eval" /\ got) => frame_counter > mppt.this_prev
          /\ (pc \in {"fine_plus_eval", "fine_minus_eval"} /\ got)
                => frame_counter > mppt.prev_fc)
    /\ [][<<last_voltage_v, last_current_a>>' /= <<last_voltage_v, last_current_a>>
            => frame_counter' = frame_counter + 1]_vars

\* After a successful wait the task reads a pair other than its recorded
\* best, two frames or more having been counted.
C23_Witness ==
    /\ pc = "fine_plus_eval"
    /\ got
    /\ frame_counter >= 2
    /\ <<last_voltage_v, last_current_a>> = <<93, 19>>
    /\ <<mppt.best_u, mppt.best_i>> = <<101, 15>>

\* C25: throughout the fine phase, and when the way back is worked out, the
\* tracked position pos equals the PLUS commands minus the MINUS commands
\* written since the sweep started (stated for sweeps none of whose waits
\* timed out).
C25_PositionTracksCommands ==
    (/\ pc \in (FinePcs \ {"fine_init"}) \cup {"return_best"}
     /\ mppt.timeouts = {})
    => mppt.pos = net_steps

\* C26: when the sweep evaluates the power after a successful wait, a status
\* frame has been received since the last command was written: after a
\* coarse burst since its last PLUS, after a fine step since that step.
C26_EvaluatesFreshTelemetry ==
    (pc \in {"coarse_eval", "fine_plus_eval", "fine_minus_eval"} /\ got)
    => frame_counter > sent_fc

\* C27: wait_for_new_frame returns True exactly if the counter has passed
\* the baseline when it returns: it does not return False with the counter
\* already past the baseline.
C27_WaitResultMatchesCounter ==
    [][(pc = "wait_sleep" /\ pc' /= "wait_sleep")
         => (got' = (frame_counter > wait_base))]_vars

\* C28: a reply frame takes only its own 8 bytes out of the stream: the
\* status frame that follows it directly is handed on, however the stream
\* is cut.
C28_StatusAfterReply ==
    (/\ fed = Len(stream)
     /\ stream = ReplyFrame \o TestFrame(TYPE_STATUS, 100, 10))
    => emitted = <<TestFrame(TYPE_STATUS, 100, 10)>>

\* The message a notification delivered: the bytes between fed and fed'.
Delivered == SubSeq(stream, fed + 1, fed')

\* C30: an inbound message that is a whole reply frame raises the misc
\* counter by one, and one that is a whole status frame leaves it as it is.
C30_MiscCountsNonStatus ==
    [][fed' /= fed =>
         /\ Delivered = ReplyFrame => misc_counter' = misc_counter + 1
         /\ (Len(Delivered) = FRAME_LEN /\ HasMagic(Delivered)
               /\ Delivered[3] = TYPE_STATUS) => misc_counter' = misc_counter]_vars

\* C29: the frame counter is the number of status frames decoded so far,
\* the last voltage and current are those of the latest of them (unset while
\* there is none), and the counter never decreases and moves only when a
\* frame is decoded.
C29_CounterCountsFrames ==
    /\ [](/\ frame_counter = Len(emitted)
          /\ IF emitted = <<>>
             THEN last_voltage_v = NoneVal /\ last_current_a = NoneVal
             ELSE /\ last_voltage_v = BigEndian(emitted[Len(emitted)], 5, 7)
                  /\ last_current_a = BigEndian(emitted[Len(emitted)], 8, 10))
    /\ [][/\ frame_counter' >= frame_counter
          /\ frame_counter' - frame_counter = Len(emitted') - Len(emitted)]_vars

\* Two status frames came in one notification and both were counted; the
\* telemetry is the second frame's.
C29_Witness ==
    /\ fed = 2 * FRAME_LEN
    /\ buffer = <<>>
    /\ frame_counter = 2
    /\ misc_counter = 0
    /\ last_voltage_v = 90
    /\ last_current_a = 20

\* C31: learn_adu writes eight frames, whatever the scores: the frame
\* number 2a+1 is a PLUS at index a and the frame number 2a+2 a MINUS at
\* index a, for a = 0, 1, 2, 3; a device that obeys the frames at its index
\* as one step each is, when learn_adu is done, where it was before.
C31_ProbeSequence ==
    /\ [][n_tx' /= n_tx =>
            /\ n_tx' = n_tx + 1
            /\ n_tx < 8
            /\ tx_adu' = n_tx \div 2
            /\ net_steps' - net_steps = (IF n_tx % 2 = 0 THEN 1 ELSE 0 - 1)
            /\ dev_pos' - dev_pos =
                  (IF tx_adu' = honored THEN net_steps' - net_steps ELSE 0)]_vars
    /\ [](pc = "learn_done" => (n_tx = 8 /\ net_steps = 0 /\ dev_pos = 0))

\* learn_adu is done, a later index having scored higher than an earlier
\* one with a positive score.
C31_Witness ==
    /\ pc = "learn_done"
    /\ n_tx = 8
    /\ dev_pos = 0
    /\ ProbeScore(probes[0]) > 0
    /\ detected_adu = 3

\* The recorded best of a sweep.
BestOf(m) == <<m.best_p, m.best_u, m.best_i, m.best_pos_steps>>

\* C32: a wait of a fine attempt that returns False ends the dithering and
\* nothing else: the sweep goes on to the return, which writes keys exactly
\* when pos differs from the best position, and to the report, whose row
\* holds the recorded best; the timeout and what follows it leave the
\* recorded best as it was.
C32_FineTimeoutEndsDither ==
    /\ [][/\ (pc \in {"fine_plus_eval", "fine_minus_eval"} /\ ~got) =>
               (pc' = "return_best" /\ BestOf(mppt') = BestOf(mppt)
                  /\ n_tx' = n_tx /\ results' = results)
          /\ ("fine" \in mppt.timeouts /\ pc' \in SweepPcs) =>
               BestOf(mppt') = BestOf(mppt)
          /\ ("fine" \in mppt.timeouts /\ pc = "return_best") =>
               pc' = (IF mppt.pos /= mppt.best_pos_steps THEN "return_loop"
                      ELSE "report")
          /\ ("fine" \in mppt.timeouts /\ pc = "report") =>
               /\ Len(results') = Len(results) + 1
               /\ results'[Len(results')][1] = mppt.best_u
               /\ results'[Len(results')][2] = mppt.best_i]_vars
    /\ [](("fine" \in mppt.timeouts /\ pc \in SweepPcs) =>
            \/ pc \in {"fine_plus_eval", "fine_minus_eval"} /\ ~got
            \/ pc \in {"return_best", "return_loop", "return_sleep", "report"}
            \/ pc = "wait_sleep" /\ wait_kind = "final")

\* The -1 attempt of a cycle timed out after the coarse phase had found a
\* better point: the return is writing the PLUS back to the best position.
C32_Witness ==
    /\ pc = "return_sleep"
    /\ "fine" \in mppt.timeouts
    /\ mppt.ret_key = BTN_PLUS
    /\ mppt.best_pos_steps > 0

\* C33: in the coarse phase only PLUS is written, never more of them than
\* max_steps; between one wait of the coarse loop and the next at least one
\* and at most BURST_PER_FRAME frames are written; a loop head that finds
\* the cap reached goes on to the fine phase with the recorded best as it
\* is, and the sweep, once it has its start values, ends only by its report.
C33_CoarseCapped ==
    /\ []((Started /\ pc \in CoarsePcs \cup {"coarse_eval"}) =>
            (net_steps = mppt.total_steps /\ mppt.total_steps <= mppt.max_steps))
    /\ [](((pc = "wait_sleep" /\ wait_kind = "coarse") \/ pc = "coarse_eval") =>
            (n_tx - mppt.burst_tx >= 1 /\ n_tx - mppt.burst_tx <= BURST_PER_FRAME))
    /\ [][/\ (pc = "coarse_loop" /\ mppt.total_steps >= mppt.max_steps) =>
               (pc' = "fine_init" /\ BestOf(mppt') = BestOf(mppt))
          /\ (pc \in CoarsePcs /\ n_tx' /= n_tx) =>
               (net_steps' = net_steps + 1 /\ mppt'.total_steps = mppt.total_steps + 1)
          /\ (Started /\ pc' \notin SweepPcs) =>
               (pc = "report" /\ Len(results') = Len(results) + 1)]_vars

\* The largest cap was reached, its last burst cut short by it, no
\* wait of the coarse loop timed out and the worse-counter is below its
\* threshold: the loop condition has ended the coarse phase.
C33_Witness ==
    /\ pc = "fine_init"
    /\ mppt.max_steps = MaxCapSteps
    /\ mppt.total_steps = mppt.max_steps
    /\ mppt.downs < mppt.consec_downs
    /\ "coarse" \notin mppt.timeouts
    /\ mppt.best_pos_steps = 3

\* C34: the recorded best is replaced only by a power strictly greater than
\* the best plus the phase's tolerance (nothing in the coarse phase, where
\* the epsilon is below the resolution of the readings; MPPT_FINE_TOL_W in
\* the fine phase): a reading at or below that mark leaves the best as it is
\* and is counted as worse (coarse) or reverted as not improving (fine).
C34_StrictImprovement ==
    [][LET p == current_power
           mark == mppt.best_p +
                     (IF pc = "coarse_eval" THEN 0 ELSE MPPT_FINE_TOL_W)
       IN /\ (Started /\ pc' \in SweepPcs /\ BestOf(mppt') /= BestOf(mppt)) =>
               (pc \in {"coarse_eval", "fine_plus_eval", "fine_minus_eval"}
                  /\ p > mark)
          /\ (pc = "coarse_eval" /\ got /\ p <= mark) =>
               mppt'.downs = mppt.downs + 1
          /\ (pc \in {"fine_plus_eval", "fine_minus_eval"} /\ got /\ p <= mark) =>
               (n_tx' = n_tx + 1 /\ mppt'.improved = mppt.improved)]_vars

\* C35: an evaluation of the coarse loop that finds a greater power sets
\* the worse-counter to 0 and any other evaluation adds 1 to it; the loop is
\* left for the fine phase by the evaluation that brings the counter to
\* MPPT_CONSECUTIVE_DOWNS and by no evaluation before it, so otherwise only
\* by the cap or by a timeout; nothing else changes the counter.
C35_LeavesAtThreshold ==
    /\ [][/\ (pc = "coarse_eval" /\ got) =>
               /\ mppt'.downs = (IF current_power > mppt.best_p THEN 0
                                 ELSE mppt.downs + 1)
               /\ pc' = (IF mppt'.downs >= MPPT_CONSECUTIVE_DOWNS
                         THEN "fine_init" ELSE "coarse_loop")
          /\ (pc \in CoarsePcs \cup {"coarse_eval"} /\ pc' = "fine_init") =>
               \/ mppt'.downs >= MPPT_CONSECUTIVE_DOWNS
               \/ mppt.total_steps >= mppt.max_steps
               \/ pc = "coarse_eval" /\ ~got
          /\ (Started /\ pc' \in SweepPcs /\ mppt'.downs /= mppt.downs) =>
               (pc = "coarse_eval" /\ got)]_vars
    /\ []((Started /\ pc \in CoarsePcs \cup {"coarse_eval"}) =>
            (mppt.downs >= 0 /\ mppt.downs < MPPT_CONSECUTIVE_DOWNS))

\* The first burst was answered by a better frame (the counter back at 0,
\* the best at three steps), the next three bursts by frames no better: the
\* loop is left after twelve steps with the counter at its threshold.
C35_Witness ==
    /\ pc = "fine_init"
    /\ mppt.downs = MPPT_CONSECUTIVE_DOWNS
    /\ mppt.best_pos_steps = BURST_PER_FRAME
    /\ mppt.total_steps = 4 * BURST_PER_FRAME
    /\ "coarse" \notin mppt.timeouts

\* C36: the fine phase runs cycles 1 to MPPT_FINE_CYCLES at most; the end
\* of a cycle in which neither attempt recorded a new best adds 1 to the
\* no-improvement counter, the end of any other cycle adds nothing to it;
\* the phase stops at the end of the cycle that brings the counter to
\* MPPT_FINE_NO_IMPROVE_MAX or is the last of the cycles, and at the end of
\* no other cycle.
C36_FineStops ==
    /\ [][/\ pc = "fine_cycle_end" =>
               /\ mppt'.no_improve <= mppt.no_improve + 1
               /\ (mppt'.no_improve = mppt.no_improve + 1) = ~mppt.improved
               /\ pc' = (IF mppt'.no_improve >= MPPT_FINE_NO_IMPROVE_MAX
                            \/ mppt.cycle >= MPPT_FINE_CYCLES
                         THEN "return_best" ELSE "fine_plus")
               /\ mppt'.cycle = mppt.cycle + (IF pc' = "fine_plus" THEN 1 ELSE 0)
          /\ (pc \in FinePcs \ {"fine_init"} /\ pc' \in SweepPcs
                /\ mppt'.improved /= mppt.improved) =>
               IF mppt'.improved
               THEN pc \in {"fine_plus_eval", "fine_minus_eval"}
                    /\ BestOf(mppt') /= BestOf(mppt)
               ELSE pc = "fine_plus"
          /\ (pc \in FinePcs \ {"fine_init"} /\ pc' \in SweepPcs
                /\ BestOf(mppt') /= BestOf(mppt)) => mppt'.improved
          /\ (pc \in FinePcs \ {"fine_init"} /\ pc' \in SweepPcs
                /\ pc /= "fine_cycle_end") =>
               (mppt'.no_improve = mppt.no_improve /\ mppt'.cycle = mppt.cycle)]_vars
    /\ [](pc \in FinePcs \ {"fine_init"} =>
            /\ mppt.cycle >= 1 /\ mppt.cycle <= MPPT_FINE_CYCLES
            /\ mppt.no_improve >= 0
            /\ mppt.no_improve < MPPT_FINE_NO_IMPROVE_MAX)

\* After cycles that improved, the fourth cycle in a row without a new best
\* has ended the fine phase before the last cycle.
C36_Witness ==
    /\ pc = "return_best"
    /\ mppt.no_improve = MPPT_FINE_NO_IMPROVE_MAX
    /\ mppt.cycle > MPPT_FINE_NO_IMPROVE_MAX
    /\ mppt.cycle < MPPT_FINE_CYCLES
    /\ "fine" \notin mppt.timeouts

\* The last cycle has ended the fine phase with the counter below its
\* threshold.
C36_LastCycleReached ==
    /\ pc = "return_best"
    /\ mppt.cycle = MPPT_FINE_CYCLES
    /\ mppt.no_improve < MPPT_FINE_NO_IMPROVE_MAX
    /\ "fine" \notin mppt.timeouts

\* C37: an attempt of the fine phase that is judged leaves pos at the best
\* position, by taking pos as the best position or by the reverting key,
\* which pos counts as it counts every key of the phase; so pos is the best
\* position at the head and at the end of every cycle and when the phase
\* ends without a timeout of an attempt, and the return writes keys only in
\* a sweep in which the wait of an attempt timed out.
C37_CycleEndsAtBest ==
    /\ [](pc \in {"fine_plus", "fine_minus", "fine_cycle_end"} =>
            mppt.pos = mppt.best_pos_steps)
    /\ []((pc = "return_best" /\ "fine" \notin mppt.timeouts) =>
            mppt.pos = mppt.best_pos_steps)
    /\ [](pc \in {"return_loop", "return_sleep"} => "fine" \in mppt.timeouts)
    /\ [][/\ (pc \in {"fine_plus_eval", "fine_minus_eval"} /\ got) =>
               /\ mppt'.pos = mppt'.best_pos_steps
               /\ (n_tx' = n_tx) = (BestOf(mppt') /= BestOf(mppt))
          /\ (pc \in FinePcs /\ n_tx' /= n_tx) =>
               mppt'.pos - mppt.pos = net_steps' - net_steps
          /\ (pc \in {"return_best", "return_loop", "return_sleep"}
                /\ "fine" \notin mppt.timeouts) => n_tx' = n_tx]_vars

\* A cycle without a timeout of an attempt is at its end, its +1 attempt
\* accepted and its -1 attempt reverted.
C37_Witness ==
    /\ pc = "fine_cycle_end"
    /\ mppt.improved
    /\ mppt.pos = mppt.best_pos_steps
    /\ net_steps = mppt.total_steps + 1
    /\ "fine" \notin mppt.timeouts

\* C38: from the start values to the report the recorded best power is the
\* recorded best voltage times the recorded best current, and the three are
\* only ever replaced together, in a step in which no frame is handled, by
\* the voltage and the current of the telemetry and their product: the
\* values of the one status frame handled last; the row of the report
\* carries that voltage and that current.
C38_BestFromOneFrame ==
    /\ [](Started => /\ mppt.best_p = mppt.best_u * mppt.best_i
                      /\ mppt.best_u >= 0
                      /\ mppt.best_i >= 0)
    /\ [][/\ (mppt'.best_p /= NoneVal
               /\ <<mppt'.best_p, mppt'.best_u, mppt'.best_i>>
                     /= <<mppt.best_p, mppt.best_u, mppt.best_i>>) =>
               /\ UNCHANGED telemetry
               /\ last_voltage_v /= NoneVal
               /\ mppt'.best_u = last_voltage_v
               /\ mppt'.best_i = last_current_a
               /\ mppt'.best_p = last_voltage_v * last_current_a
          /\ (Started /\ pc = "report") =>
               /\ results'[Len(results')][1] * results'[Len(results')][2]
                    = mppt.best_p
               /\ UNCHANGED telemetry]_vars

\* The recorded best was replaced in the fine phase, and the telemetry has
\* moved on to another frame since.
C38_Witness ==
    /\ Started
    /\ pc \in FinePcs
    /\ mppt.improved
    /\ mppt.best_p = 1767
    /\ <<mppt.best_u, mppt.best_i>> = <<93, 19>>
    /\ <<last_voltage_v, last_current_a>> = <<100, 10>>

\* C39: for every command code and every index of one byte the frame the
\* panic-off script builds is, byte for byte, the 10-byte frame
\* build_atorch_cmd builds for the same code and index.
C39_PanicFrameSame ==
    (fn_ret /= <<>> /\ fn_arg[1] = "panic") =>
        /\ Len(fn_ret[1]) = 10
        /\ \A k \in 1..10 :
             fn_ret[1][k] = build_atorch_cmd(fn_arg[2], fn_arg[3])[k]

\* The panic-off script's toggle frame (code 0x32 at index 2, checksum 0x65)
\* has been built.
C39_Witness ==
    /\ fn_arg = <<"panic", CMD_ONOFF, ONOFF_ADU>>
    /\ fn_ret /= <<>>
    /\ fn_ret[1][10] = 101

====
